---- MODULE Spec2Model ----
(***************************************************************************)
(* The central limit order book (mms::OrderBook and its price levels),     *)
(* the event dispatcher on top of it (mms::MatchingEngine), and the        *)
(* simulation driver with its agents (mms::Simulator, mms::AgentManager,   *)
(* mms::MarketMaker, mms::Taker, mms::NoiseTrader, mms::RNG).              *)
(*                                                                         *)
(* Order, Trade and Event are records with the fields the code reads when  *)
(* it decides something.  The timestamp and agent_id fields are copied     *)
(* through by the code and never read by the book or the engine, so they   *)
(* are left out of the records.                                            *)
(***************************************************************************)
EXTENDS Integers, Sequences, FiniteSets, TLC

\* ------------------------------------------------------------------ bounds
\* An operation is offered while it leaves at most MaxOrders orders resting
\* and trade_count_ at most MaxTrades, and while it brings the calls made
\* since construction or the last clear to at most MaxOps, a vector of events
\* counted once for each event.  A Simulator takes at most MaxCalls calls of
\* its public functions.  process_events is compared with process_event on every
\* vector of two events on the books at most BatchDepth calls have built.
MaxOrders == 2
MaxTrades == 2
MaxOps == 4
MaxCalls == 3
BatchDepth == 1

\* ------------------------------------------------------------------- types
BUY == "BUY"
SELL == "SELL"
Side == {BUY, SELL}

LIMIT == "LIMIT"
MARKET == "MARKET"
CANCEL == "CANCEL"
UNKNOWN == "UNKNOWN"      \* any uint8 value of EventType other than 0, 1, 2
EventType == {LIMIT, MARKET, CANCEL, UNKNOWN}

\* The values the operations are called with.  Two ids, so that an id can be
\* reused or not; price 0 and quantity 0 are the invalid ones; a market
\* quantity can be negative.
OrderIds == {1, 2}
TakerIds == {3}
Prices == {0, 1, 2}
LimitQtys == {0, 1, 2}
MarketQtys == {-1, 0, 1, 2}

Order(id, side, price, quantity) ==
    [id |-> id, side |-> side, price |-> price, quantity |-> quantity]

\* Trade with the price and quantity initialisers exchanged.
Trade_swapped(maker_id, taker_id, price, quantity) ==
    [maker_id |-> maker_id, taker_id |-> taker_id, price |-> quantity, quantity |-> price]

Trade(maker_id, taker_id, price, quantity) ==
    [maker_id |-> maker_id, taker_id |-> taker_id, price |-> price, quantity |-> quantity]

Event(type, order_id, side, price, quantity) ==
    [type |-> type, order_id |-> order_id, side |-> side, price |-> price,
     quantity |-> quantity]

is_valid_price(price) == price > 0

is_valid_quantity(quantity) == quantity > 0

\* ------------------------------------------------- std::map / unordered_map
MapPut(m, k, v) == [x \in (DOMAIN m) \cup {k} |-> IF x = k THEN v ELSE m[x]]

MapErase(m, k) == [x \in (DOMAIN m) \ {k} |-> m[x]]

EmptyMap == [x \in {} |-> 0]

\* Body applied to the value of x: a local that is computed once, where it is
\* declared.
With(x, Body(_)) == CHOOSE y \in {Body(v) : v \in {x}} : TRUE

\* end(): the iterator past the last key.  Every key of a level map is a
\* valid price, hence > 0.
End == 0

\* std::map<Price, ..., std::greater<Price>>: begin() is the highest key and
\* ++it moves to the next lower key.
BuyBegin(levels) ==
    IF DOMAIN levels = {} THEN End
    ELSE CHOOSE p \in DOMAIN levels : \A q \in DOMAIN levels : q <= p

BuyNext(levels, it) ==
    LET below == {p \in DOMAIN levels : p < it}
    IN IF below = {} THEN End ELSE CHOOSE p \in below : \A q \in below : q <= p

\* std::map<Price, ...>: begin() is the lowest key and ++it moves to the next
\* higher key.
SellBegin(levels) ==
    IF DOMAIN levels = {} THEN End
    ELSE CHOOSE p \in DOMAIN levels : \A q \in DOMAIN levels : p <= q

SellNext(levels, it) ==
    LET above == {p \in DOMAIN levels : p > it}
    IN IF above = {} THEN End ELSE CHOOSE p \in above : \A q \in above : p <= q

\* size_t is unsigned: 0 - 1 wraps to SIZE_MAX.  SIZE_MAX stands for 2^64 - 1.
SIZE_MAX == -1

SizeDec(n) == IF n = 0 THEN SIZE_MAX ELSE n - 1

\* ------------------------------------------------------ OrderBookPriceLevel
EmptyLevel == [orders_ |-> << >>, total_quantity_ |-> 0]

\* add_order that pushes to the front of the queue.
add_order_front(level, order) ==
    [orders_ |-> <<order>> \o level.orders_,
     total_quantity_ |-> level.total_quantity_ + order.quantity]

\* add_order that leaves total_quantity_ alone.
add_order_nosum(level, order) ==
    [orders_ |-> Append(level.orders_, order), total_quantity_ |-> level.total_quantity_]

add_order(level, order) ==
    [orders_ |-> Append(level.orders_, order),
     total_quantity_ |-> level.total_quantity_ + order.quantity]

\* The position of the first order of the queue with this id; 0 when none.
FirstWithId(orders, order_id) ==
    IF \E i \in DOMAIN orders : orders[i].id = order_id
    THEN CHOOSE i \in DOMAIN orders :
            /\ orders[i].id = order_id
            /\ \A j \in 1..(i - 1) : orders[j].id # order_id
    ELSE 0

EraseAt(orders, i) == SubSeq(orders, 1, i - 1) \o SubSeq(orders, i + 1, Len(orders))

\* remove_order that erases the order and leaves total_quantity_ as it was.
remove_order_keeptotal(level, order_id) ==
    LET i == FirstWithId(level.orders_, order_id)
    IN IF i = 0
       THEN [ret |-> FALSE, level |-> level]
       ELSE [ret |-> TRUE,
             removed_order |-> level.orders_[i],
             level |-> [orders_ |-> EraseAt(level.orders_, i),
                        total_quantity_ |-> level.total_quantity_]]

remove_order(level, order_id) ==
    LET i == FirstWithId(level.orders_, order_id)
    IN IF i = 0
       THEN [ret |-> FALSE, level |-> level]
       ELSE [ret |-> TRUE,
             removed_order |-> level.orders_[i],
             level |-> [orders_ |-> EraseAt(level.orders_, i),
                        total_quantity_ |->
                            level.total_quantity_ - level.orders_[i].quantity]]

\* consume_order whose partial fill leaves the front order's quantity as it
\* was.
consume_order_keepqty(level, quantity) ==
    IF level.orders_ = << >>
    THEN [ret |-> FALSE, level |-> level]
    ELSE LET front_order == Head(level.orders_)
         IN IF front_order.quantity <= quantity
            THEN [ret |-> TRUE,
                  consumed_order |-> front_order,
                  level |-> [orders_ |-> Tail(level.orders_),
                             total_quantity_ |->
                                 level.total_quantity_ - front_order.quantity]]
            ELSE [ret |-> FALSE,
                  consumed_order |-> [front_order EXCEPT !.quantity = quantity],
                  level |-> [orders_ |-> level.orders_,
                             total_quantity_ |-> level.total_quantity_ - quantity]]

consume_order(level, quantity) ==
    IF level.orders_ = << >>
    THEN [ret |-> FALSE, level |-> level]
    ELSE LET front_order == Head(level.orders_)
         IN IF front_order.quantity <= quantity
            THEN \* Consume entire order
                 [ret |-> TRUE,
                  consumed_order |-> front_order,
                  level |-> [orders_ |-> Tail(level.orders_),
                             total_quantity_ |->
                                 level.total_quantity_ - front_order.quantity]]
            ELSE \* Partial fill
                 [ret |-> FALSE,
                  consumed_order |-> [front_order EXCEPT !.quantity = quantity],
                  level |-> [orders_ |->
                                 <<[front_order EXCEPT !.quantity = @ - quantity]>>
                                    \o Tail(level.orders_),
                             total_quantity_ |-> level.total_quantity_ - quantity]]

\* ---------------------------------------------------------------- OrderBook
\* A book value: the data members of OrderBook.
EmptyBook ==
    [buy_levels_ |-> EmptyMap, sell_levels_ |-> EmptyMap, order_lookup_ |-> EmptyMap,
     order_count_ |-> 0, last_trade_price_ |-> 0, total_volume_ |-> 0,
     trade_count_ |-> 0]

\* std::map::operator[]: the level at the price, default-constructed on first use.
LevelAt(levels, price) == IF price \in DOMAIN levels THEN levels[price] ELSE EmptyLevel

\* An emptied level left in its map.
DropIfEmpty_keep(levels, price) == levels

\* "Remove empty price level": if (level.empty()) levels.erase(it).
DropIfEmpty(levels, price) ==
    IF levels[price].orders_ = << >> THEN MapErase(levels, price) ELSE levels

\* add_limit_order_to_side that counts an order only when its id is not in
\* order_lookup_ yet.
add_limit_order_to_side_newid(b, order) ==
    LET placed ==
            IF order.side = BUY
            THEN [b EXCEPT !.buy_levels_ =
                      MapPut(@, order.price, add_order(LevelAt(@, order.price), order))]
            ELSE [b EXCEPT !.sell_levels_ =
                      MapPut(@, order.price, add_order(LevelAt(@, order.price), order))]
    IN [ret |-> TRUE,
        book |-> [placed EXCEPT
                    !.order_lookup_ =
                        MapPut(@, order.id, [price |-> order.price, side |-> order.side]),
                    !.order_count_ =
                        IF order.id \in DOMAIN b.order_lookup_ THEN @ ELSE @ + 1]]

add_limit_order_to_side(b, order) ==
    LET placed ==
            IF order.side = BUY
            THEN [b EXCEPT !.buy_levels_ =
                      MapPut(@, order.price, add_order(LevelAt(@, order.price), order))]
            ELSE [b EXCEPT !.sell_levels_ =
                      MapPut(@, order.price, add_order(LevelAt(@, order.price), order))]
    IN [ret |-> TRUE,
        book |-> [placed EXCEPT
                    !.order_lookup_ =
                        MapPut(@, order.id, [price |-> order.price, side |-> order.side]),
                    !.order_count_ = @ + 1]]

\* add_limit_order without the validity check.
add_limit_order_unchecked(b, order) == add_limit_order_to_side(b, order)

\* add_limit_order that counts an accepted order as a trade of its quantity
\* at its price.
add_limit_order_counted(b, order) ==
    IF ~is_valid_price(order.price) \/ ~is_valid_quantity(order.quantity)
    THEN [ret |-> FALSE, book |-> b]
    ELSE LET a == add_limit_order_to_side(b, order)
         IN [ret |-> TRUE,
             book |-> [a.book EXCEPT !.trade_count_ = @ + 1,
                                     !.total_volume_ = @ + order.quantity,
                                     !.last_trade_price_ = order.price]]

add_limit_order(b, order) ==
    IF ~is_valid_price(order.price) \/ ~is_valid_quantity(order.quantity)
    THEN [ret |-> FALSE, book |-> b]
    ELSE add_limit_order_to_side(b, order)

\* The matcher's locals: the book as it stands, remaining_qty, the trades
\* vector, and the maker_order snapshot behind each trade.
MatchStart(b, quantity) ==
    [book |-> b, remaining_qty |-> quantity, trades |-> << >>, makers |-> << >>]

\* A full fill that leaves trade_count_ and last_trade_price_ alone.
Filled_nocount(st, c, price, taker_id) ==
    LET maker_order == c.consumed_order
    IN [book |-> [st.book EXCEPT
                    !.order_lookup_ = MapErase(@, maker_order.id),
                    !.order_count_ = SizeDec(@),
                    !.total_volume_ = @ + maker_order.quantity],
        remaining_qty |-> st.remaining_qty - maker_order.quantity,
        trades |-> Append(st.trades,
                          Trade(maker_order.id, taker_id, price, maker_order.quantity)),
        makers |-> Append(st.makers, maker_order)]

\* A full fill that leaves the maker's entry in order_lookup_.
Filled_keeplookup(st, c, price, taker_id) ==
    LET maker_order == c.consumed_order
    IN [book |-> [st.book EXCEPT
                    !.order_count_ = SizeDec(@),
                    !.last_trade_price_ = price,
                    !.total_volume_ = @ + maker_order.quantity,
                    !.trade_count_ = @ + 1],
        remaining_qty |-> st.remaining_qty - maker_order.quantity,
        trades |-> Append(st.trades,
                          Trade(maker_order.id, taker_id, price, maker_order.quantity)),
        makers |-> Append(st.makers, maker_order)]

\* One pass of the body of the while loop over a level, after consume_order.
Filled(st, c, price, taker_id) ==
    LET maker_order == c.consumed_order
    IN [book |-> [st.book EXCEPT
                    !.order_lookup_ = MapErase(@, maker_order.id),
                    !.order_count_ = SizeDec(@),
                    !.last_trade_price_ = price,
                    !.total_volume_ = @ + maker_order.quantity,
                    !.trade_count_ = @ + 1],
        remaining_qty |-> st.remaining_qty - maker_order.quantity,
        trades |-> Append(st.trades,
                          Trade(maker_order.id, taker_id, price, maker_order.quantity)),
        makers |-> Append(st.makers, maker_order)]

\* A partial fill that assigns to total_volume_ instead of adding to it.
PartlyFilled_assign(st, c, price, taker_id) ==
    LET maker_order == c.consumed_order
        remaining_qty == 0
    IN [book |-> [st.book EXCEPT
                    !.last_trade_price_ = price,
                    !.total_volume_ = remaining_qty,
                    !.trade_count_ = @ + 1],
        remaining_qty |-> remaining_qty,
        trades |-> Append(st.trades,
                          Trade(maker_order.id, taker_id, price, st.remaining_qty)),
        makers |-> Append(st.makers, maker_order)]

PartlyFilled(st, c, price, taker_id) ==
    LET maker_order == c.consumed_order
        remaining_qty == 0      \* assigned before total_volume_ is updated
    IN [book |-> [st.book EXCEPT
                    !.last_trade_price_ = price,
                    !.total_volume_ = @ + remaining_qty,
                    !.trade_count_ = @ + 1],
        remaining_qty |-> remaining_qty,
        trades |-> Append(st.trades,
                          Trade(maker_order.id, taker_id, price, st.remaining_qty)),
        makers |-> Append(st.makers, maker_order)]

RECURSIVE match_buy_level(_, _, _)
match_buy_level(st, price, taker_id) ==
    LET level == st.book.sell_levels_[price]
    IN IF level.orders_ = << >> \/ ~(st.remaining_qty > 0)
       THEN st
       ELSE LET c == consume_order(level, st.remaining_qty)
                consumed == [st EXCEPT !.book.sell_levels_ = MapPut(@, price, c.level)]
            IN IF c.ret
               THEN match_buy_level(Filled(consumed, c, price, taker_id), price, taker_id)
               ELSE match_buy_level(PartlyFilled(consumed, c, price, taker_id),
                                    price, taker_id)

\* The walk over the asks that stops after the best level.
match_buy_walk_onelevel(st, it, taker_id) ==
    IF it = End \/ ~(st.remaining_qty > 0)
    THEN st
    ELSE LET after == match_buy_level(st, it, taker_id)
         IN [after EXCEPT !.book.sell_levels_ = DropIfEmpty(@, it)]

RECURSIVE match_buy_walk(_, _, _)
match_buy_walk(st, it, taker_id) ==
    IF it = End \/ ~(st.remaining_qty > 0)
    THEN st
    ELSE LET after == match_buy_level(st, it, taker_id)
             next == SellNext(after.book.sell_levels_, it)
         IN match_buy_walk([after EXCEPT !.book.sell_levels_ = DropIfEmpty(@, it)],
                           next, taker_id)

match_market_order_buy(b, quantity, taker_id) ==
    match_buy_walk(MatchStart(b, quantity), SellBegin(b.sell_levels_), taker_id)

RECURSIVE match_sell_level(_, _, _)
match_sell_level(st, price, taker_id) ==
    LET level == st.book.buy_levels_[price]
    IN IF level.orders_ = << >> \/ ~(st.remaining_qty > 0)
       THEN st
       ELSE LET c == consume_order(level, st.remaining_qty)
                consumed == [st EXCEPT !.book.buy_levels_ = MapPut(@, price, c.level)]
            IN IF c.ret
               THEN match_sell_level(Filled(consumed, c, price, taker_id), price, taker_id)
               ELSE match_sell_level(PartlyFilled(consumed, c, price, taker_id),
                                     price, taker_id)

RECURSIVE match_sell_walk(_, _, _)
match_sell_walk(st, it, taker_id) ==
    IF it = End \/ ~(st.remaining_qty > 0)
    THEN st
    ELSE LET after == match_sell_level(st, it, taker_id)
             next == BuyNext(after.book.buy_levels_, it)
         IN match_sell_walk([after EXCEPT !.book.buy_levels_ = DropIfEmpty(@, it)],
                            next, taker_id)

match_market_order_sell(b, quantity, taker_id) ==
    match_sell_walk(MatchStart(b, quantity), BuyBegin(b.buy_levels_), taker_id)

\* add_market_order dispatching a buy to the sell matcher and a sell to the
\* buy matcher.
add_market_order_swapped(b, side, quantity, taker_id) ==
    IF side = BUY
    THEN match_market_order_sell(b, quantity, taker_id)
    ELSE match_market_order_buy(b, quantity, taker_id)

add_market_order(b, side, quantity, taker_id) ==
    IF side = BUY
    THEN match_market_order_buy(b, quantity, taker_id)
    ELSE match_market_order_sell(b, quantity, taker_id)

remove_order_from_side(b, order_id, price, side) ==
    IF side = BUY
    THEN IF price \in DOMAIN b.buy_levels_
         THEN LET r == remove_order(b.buy_levels_[price], order_id)
              IN IF r.ret
                 THEN [b EXCEPT
                         !.order_lookup_ = MapErase(@, order_id),
                         !.order_count_ = SizeDec(@),
                         !.buy_levels_ = DropIfEmpty(MapPut(@, price, r.level), price)]
                 ELSE b
         ELSE b
    ELSE IF price \in DOMAIN b.sell_levels_
         THEN LET r == remove_order(b.sell_levels_[price], order_id)
              IN IF r.ret
                 THEN [b EXCEPT
                         !.order_lookup_ = MapErase(@, order_id),
                         !.order_count_ = SizeDec(@),
                         !.sell_levels_ = DropIfEmpty(MapPut(@, price, r.level), price)]
                 ELSE b
         ELSE b

cancel_order(b, order_id) ==
    IF order_id \notin DOMAIN b.order_lookup_
    THEN [ret |-> FALSE, book |-> b]
    ELSE LET price == b.order_lookup_[order_id].price
             side == b.order_lookup_[order_id].side
         IN [ret |-> TRUE, book |-> remove_order_from_side(b, order_id, price, side)]

\* Absent (std::nullopt) is End.
best_bid_price(b) == BuyBegin(b.buy_levels_)

best_bid_quantity(b) ==
    IF DOMAIN b.buy_levels_ = {} THEN End
    ELSE b.buy_levels_[BuyBegin(b.buy_levels_)].total_quantity_

best_ask_price(b) == SellBegin(b.sell_levels_)

best_ask_quantity(b) ==
    IF DOMAIN b.sell_levels_ = {} THEN End
    ELSE b.sell_levels_[SellBegin(b.sell_levels_)].total_quantity_

size(b) == b.order_count_

\* std::optional<Order>: absent (std::nullopt) is the empty sequence, a value
\* is the one-element sequence holding the order.
get_order(b, order_id) ==
    IF order_id \notin DOMAIN b.order_lookup_
    THEN << >>
    ELSE LET price == b.order_lookup_[order_id].price
             side == b.order_lookup_[order_id].side
             levels == IF side = BUY THEN b.buy_levels_ ELSE b.sell_levels_
         IN IF price \in DOMAIN levels
               /\ FirstWithId(levels[price].orders_, order_id) # 0
            THEN << levels[price].orders_[FirstWithId(levels[price].orders_, order_id)] >>
            ELSE << >>

\* clear that empties the containers and leaves the statistics.
clear_keepstats(b) ==
    [b EXCEPT !.buy_levels_ = EmptyMap, !.sell_levels_ = EmptyMap,
              !.order_lookup_ = EmptyMap, !.order_count_ = 0]

clear(b) == EmptyBook

\* ----------------------------------------------------------- MatchingEngine
\* What one call leaves behind: the book, the returned trades (with the maker
\* snapshots behind them), the bool the book returned ("void" when the
\* operation returns none), and the observer calls it made, in the order it
\* made them.
Outcome(b, trades, makers, ret) ==
    [book |-> b, trades |-> trades, makers |-> makers, ret |-> ret, calls |-> << >>]

RetOf(bool) == IF bool THEN "true" ELSE "false"

\* notify_order that calls the observer twice.
notify_order_twice(order, b) ==
    <<[observer |-> "order", arg |-> order, book |-> b],
      [observer |-> "order", arg |-> order, book |-> b]>>

\* The call order_callback_(order), made with the book as it stands.  The
\* log holds the calls of both observers; an observer that is not set takes
\* none of them (OrderObserverCalls, TradeObserverCalls).
notify_order(order, b) == <<[observer |-> "order", arg |-> order, book |-> b]>>

\* The call trade_callback_(trade), made with the book as it stands.
notify_trade(trade, b) == <<[observer |-> "trade", arg |-> trade, book |-> b]>>

\* The notification loop run from the last trade to the first.
NotifyTrades_backwards(trades, b) ==
    [i \in 1..Len(trades) |-> notify_trade(trades[Len(trades) + 1 - i], b)[1]]

\* for (const auto& trade : trades) notify_trade(trade);
NotifyTrades(trades, b) == [i \in 1..Len(trades) |-> notify_trade(trades[i], b)[1]]

\* if (order_callback_) ... : the calls the order observer receives.
OrderObserverCalls(order_callback_, calls) ==
    IF order_callback_ THEN SelectSeq(calls, LAMBDA c : c.observer = "order") ELSE << >>

\* if (trade_callback_) ... : the calls the trade observer receives.
TradeObserverCalls(trade_callback_, calls) ==
    IF trade_callback_ THEN SelectSeq(calls, LAMBDA c : c.observer = "trade") ELSE << >>

process_limit_order(b, event) ==
    LET order == Order(event.order_id, event.side, event.price, event.quantity)
        a == add_limit_order(b, order)
    IN IF a.ret
       THEN LET admitted == notify_order(order, a.book)
            IN IF event.side = BUY
               THEN LET best_ask == best_ask_price(a.book)
                    IN IF best_ask # End /\ event.price >= best_ask
                       THEN LET m == add_market_order(a.book, SELL, event.quantity,
                                                      event.order_id)
                            IN [Outcome(m.book, m.trades, m.makers, "true") EXCEPT
                                   !.calls = admitted \o NotifyTrades(m.trades, m.book)]
                       ELSE [Outcome(a.book, << >>, << >>, "true") EXCEPT
                                !.calls = admitted]
               ELSE LET best_bid == best_bid_price(a.book)
                    IN IF best_bid # End /\ event.price <= best_bid
                       THEN LET m == add_market_order(a.book, BUY, event.quantity,
                                                      event.order_id)
                            IN [Outcome(m.book, m.trades, m.makers, "true") EXCEPT
                                   !.calls = admitted \o NotifyTrades(m.trades, m.book)]
                       ELSE [Outcome(a.book, << >>, << >>, "true") EXCEPT
                                !.calls = admitted]
       ELSE Outcome(a.book, << >>, << >>, "false")

\* process_market_order that rests what was not filled as a limit order at
\* the last traded price.
process_market_order_rest(b, event) ==
    LET m == add_market_order(b, event.side, event.quantity, event.order_id)
    IN IF m.remaining_qty > 0 /\ m.trades # << >>
       THEN Outcome(add_limit_order_to_side(m.book,
                        Order(event.order_id, event.side,
                              m.trades[Len(m.trades)].price, m.remaining_qty)).book,
                    m.trades, m.makers, "void")
       ELSE Outcome(m.book, m.trades, m.makers, "void")

process_market_order(b, event) ==
    LET m == add_market_order(b, event.side, event.quantity, event.order_id)
    IN [Outcome(m.book, m.trades, m.makers, "void") EXCEPT
           !.calls = NotifyTrades(m.trades, m.book)]

process_cancel_order(b, event) ==
    LET c == cancel_order(b, event.order_id)
    IN Outcome(c.book, << >>, << >>, RetOf(c.ret))

\* process_event without the default case: a type that is none of the three
\* falls through to the cancel handler.
process_event_fallthrough(b, event) ==
    CASE event.type = LIMIT -> process_limit_order(b, event)
      [] event.type = MARKET -> process_market_order(b, event)
      [] OTHER -> process_cancel_order(b, event)

process_event(b, event) ==
    CASE event.type = LIMIT -> process_limit_order(b, event)
      [] event.type = MARKET -> process_market_order(b, event)
      [] event.type = CANCEL -> process_cancel_order(b, event)
      [] OTHER -> Outcome(b, << >>, << >>, "void")

\* The body of the loop of process_events, run over the events that are left:
\* acc holds the book and all_trades so far.
RECURSIVE process_events_loop(_, _)
process_events_loop(acc, events) ==
    IF events = << >>
    THEN acc
    ELSE With(process_event(acc.book, Head(events)), LAMBDA out :
         process_events_loop([book |-> out.book,
                              trades |-> acc.trades \o out.trades,
                              makers |-> acc.makers \o out.makers,
                              ret |-> "void",
                              calls |-> acc.calls \o out.calls],
                             Tail(events)))

\* process_events that walks the vector from its last event to its first.
process_events_backwards(b, events) ==
    process_events_loop(Outcome(b, << >>, << >>, "void"),
                        [i \in 1..Len(events) |-> events[Len(events) + 1 - i]])

process_events(b, events) ==
    process_events_loop(Outcome(b, << >>, << >>, "void"), events)

\* ---------------------------------------------------------------------- RNG
\* std::mt19937_64 and the distributions of <random> are tabulated, not
\* computed: for a seed s and k = 0 .. StreamLen - 1, with g the generator
\* std::mt19937_64(s) after k values have been taken from it,
\*   Top30[s][k + 1]                the 30 high bits of the next value, g() >> 34;
\*   ExpA[s][k + 1], ExpB[s][k + 1] std::exponential_distribution<double>(1.0)(g),
\*                                  which takes one value: its first six
\*                                  decimals and its next six;
\*   NormA[s][k + 1], NormB[s][k + 1] std::normal_distribution<double>(0.0, 1.0)(g)
\*                                  for a distribution object made for the call,
\*                                  as floor(z * 10^6) and the next six decimals;
\*   NormN[s][k + 1]                the number of values that call takes (two
\*                                  for each round of the polar method).
\* std::uniform_int_distribution and std::bernoulli_distribution take one
\* value and are computed from its high bits.  A generator value is its seed
\* and the number of values taken since it was seeded.
Seeds == {42, 12345}

Top30 ==
    [seed \in Seeds |->
        IF seed = 42
        THEN <<810842079, 686154734, 807609759, 146321679, 969877667, 101005080, 616940166, 400385118,
             294070077, 419050168, 13295899, 562324594, 735804441, 684336619, 887501042, 1015436017,
             808762217, 482019965, 50254357, 69357836, 802732170, 160329482, 456613963, 107424609,
             154526535, 101116860, 569256354, 479100318, 830022642, 131552798, 800115371, 347632773,
             806347231, 863645354, 46726541, 994394979, 798486654, 446728793, 319577745, 20723498,
             751468905, 493320042, 576524528, 524911874, 227302172, 651956047, 529436195, 412258735,
             716297390, 446654370, 466559923, 98366184, 79714709, 881022773, 512721708, 476135770,
             1068855000, 638812226, 664688570, 619338766, 924778347, 510799694, 884517763, 528051806,
             477395164, 332890280, 318955742, 561344000, 391777259, 820121683, 328011654, 736644844,
             782860478, 698701711, 876450619, 845172295, 700177931, 852387717, 432244072, 1005682115,
             373408103, 321544448, 792563905, 637674420, 378646793, 148912036, 670730279, 636430432,
             560076469, 658110809, 63537937, 394015749, 789563549, 656869700, 424675899, 1001114721,
             795262159, 247093592, 568137987, 132984296, 845588086, 252057286, 99252499, 955555376,
             506847525, 121452333, 743500793, 136607014, 773239977, 649367939, 382217012, 825642291,
             997661530, 1069744803, 419355074, 398796131, 893647806, 821334410, 707302595, 948535981,
             70484714, 348393439, 314762685, 447191821, 172419057, 914522333, 521690262, 312364787>>
        ELSE <<384001990, 429971986, 740219700, 601011492, 616812380, 223006005, 30776338, 739727025,
             503953594, 222428406, 4222223, 13990546, 451425139, 661630531, 960873961, 440917106,
             279998294, 28699979, 115902265, 393723926, 4173382, 1009416534, 742251850, 986409635,
             450684194, 863390977, 642775056, 3701800, 524327291, 947260018, 1003156322, 1058372714,
             463091699, 137452113, 934313244, 828439417, 751810179, 691729182, 682625788, 1071403767,
             452781500, 129825344, 124593480, 455943658, 184657731, 110289631, 256886998, 1047769439,
             373958376, 700184044, 569597335, 386712499, 943019491, 87514667, 532048235, 368047451,
             507524398, 747438483, 79694711, 437531448, 211271125, 710905537, 941831433, 208556204,
             214625432, 526896339, 1008306270, 441429131, 859526377, 183732439, 500561221, 1007392348,
             432090346, 1056713462, 150919402, 472292434, 961579361, 725874936, 1037882865, 442246800,
             239113763, 781603126, 539884612, 52757636, 395589060, 386526612, 792989342, 991804302,
             10628461, 164136838, 949265415, 136266979, 259105269, 475430561, 927354413, 902616290,
             280308236, 959792320, 919740631, 101374984, 1050613126, 1040506204, 100134303, 705325606,
             849308547, 8510468, 577047973, 254067280, 649847693, 625258949, 152886152, 48100487,
             712954808, 372161165, 1047487009, 686171692, 928431666, 1020998671, 218732362, 1062710443,
             453362975, 553133034, 471465588, 615097181, 433005967, 477326446, 66728335, 8415493>>]

ExpA ==
    [seed \in Seeds |->
        IF seed = 42
        THEN <<1407132, 1018964, 1394912, 146498, 2335821, 98791, 854655, 466629,
             320031, 494740, 12460, 741719, 1156044, 1014284, 1751864, 2913203,
             1399251, 595868, 47933, 66775, 1376750, 161717, 553828, 105412,
             155384, 98906, 755365, 590946, 1482888, 130698, 1367140, 391204,
             1390179, 1631338, 44492, 2605076, 1361206, 537937, 353294, 19488,
             1203506, 615149, 769877, 671116, 237865, 934407, 679393, 484420,
             1099924, 537818, 570076, 96082, 77140, 1717671, 649148, 585973,
             5392362, 903720, 965059, 859920, 1975203, 645728, 1735973, 676853,
             588082, 371104, 352470, 739803, 453927, 1443067, 364541, 1158534,
             1305989, 1051871, 1694224, 1547064, 1055815, 1579141, 515099, 2758519,
             427347, 355906, 1339917, 901108, 434856, 149295, 979939, 898259,
             737332, 949106, 60997, 457214, 1329303, 946125, 503370, 2693566,
             1349559, 261525, 753151, 132219, 1548885, 267548, 96991, 2206641,
             638731, 120035, 1179082, 136077, 1273450, 928289, 440005, 1465074,
             2647115, 5593355, 495206, 464272, 1785425, 1447860, 1075072, 2148945,
             67897, 392252, 346930, 538676, 175041, 1908621, 665263, 343776>>
        ELSE <<442590, 511563, 1169195, 820379, 854375, 232803, 29081, 1167719,
             633640, 232124, 3940, 13115, 545455, 957611, 2252687, 528711,
             302144, 27092, 114224, 456785, 3894, 2814951, 1175307, 2509185,
             544265, 1630128, 912873, 3453, 670051, 2138806, 2722080, 4246545,
             564380, 136979, 2041352, 1476413, 1204565, 1033451, 1009900, 6129584,
             547637, 128867, 123339, 552743, 188713, 108381, 273443, 3721871,
             428133, 1055832, 756041, 446527, 2105829, 85018, 684204, 419722,
             639926, 1191077, 77120, 523375, 219103, 1084953, 2096782, 215960,
             223000, 674738, 2797839, 529520, 1611922, 187672, 627704, 2783969,
             514859, 4144024, 151468, 579562, 2258956, 1127084, 3399311, 530814,
             251918, 1301676, 698776, 50382, 459532, 446257, 1341431, 2572947,
             9947, 165894, 2154788, 135714, 276162, 584793, 1992648, 1836507,
             302535, 2243149, 1941944, 99171, 3837830, 3475282, 97896, 1069691,
             1565326, 7957, 770931, 269997, 929421, 873034, 153601, 45831,
             1090617, 425568, 3711055, 1019008, 2000034, 3013470, 227792, 4578160,
             548574, 723905, 578188, 850629, 516287, 587967, 64160, 7868>>]

ExpB ==
    [seed \in Seeds |->
        IF seed = 42
        THEN <<98412, 288017, 191168, 166048, 1725, 375078, 571666, 646661,
             865606, 488334, 76474, 105391, 238916, 400612, 497682, 181389,
             991778, 168810, 699332, 174522, 418281, 446307, 626418, 698872,
             499796, 294815, 821221, 147341, 190695, 940684, 995893, 647410,
             415092, 53636, 768043, 179260, 300990, 535373, 904283, 943406,
             98941, 810715, 714493, 211194, 952108, 312706, 953551, 440492,
             938737, 848515, 441019, 190244, 374774, 429569, 98275, 94918,
             388856, 685085, 507868, 263875, 704506, 26157, 39454, 777976,
             716724, 599763, 485780, 535849, 160141, 222049, 26941, 197605,
             421966, 872098, 27347, 411313, 805334, 146225, 179338, 475045,
             893874, 102460, 226471, 33087, 287709, 151443, 650605, 350607,
             867146, 976880, 401795, 973538, 92237, 343480, 568909, 697019,
             821220, 609518, 428519, 427780, 167821, 311511, 294755, 414722,
             995273, 783499, 74119, 713046, 960521, 989651, 827324, 854043,
             579012, 666659, 321335, 627291, 826673, 356888, 167282, 733958,
             763505, 788920, 567715, 275882, 433505, 166467, 409034, 174472>>
        ELSE <<385926, 591070, 657548, 756767, 869815, 214578, 496402, 559882,
             94194, 504329, 4024, 342852, 757184, 418722, 85331, 383331,
             461077, 652770, 570331, 740920, 338282, 993806, 296148, 750259,
             840427, 24734, 877716, 527293, 634731, 393642, 95453, 226928,
             691930, 910103, 360646, 97072, 620785, 158272, 576073, 752239,
             670976, 171828, 757205, 47917, 35878, 990553, 471412, 17947,
             932050, 169052, 948205, 883206, 386066, 149283, 352277, 615420,
             710159, 416658, 255931, 570822, 683108, 127916, 24852, 785565,
             449092, 575113, 113412, 819693, 589561, 852130, 3856, 5902,
             572933, 564986, 35543, 466823, 480189, 960303, 442791, 798284,
             669568, 176593, 449894, 528404, 281087, 353550, 424732, 832306,
             842428, 435506, 648487, 934316, 790522, 734091, 255990, 460473,
             17437, 459227, 515312, 718937, 707444, 679837, 593224, 535124,
             403179, 569258, 18213, 494989, 125931, 360987, 543480, 468408,
             59760, 986143, 466081, 40656, 384440, 907392, 324053, 903583,
             521454, 982205, 655348, 147989, 567321, 492184, 571875, 413695>>]

NormA ==
    [seed \in Seeds |->
        IF seed = 42
        THEN <<704988, 1301080, -574095, 158267, -1906686, 158267, -1906686, -1412306,
             -724123, -37939, 15012, 1968559, 1047702, 1082220, -321413, -602710,
             -321413, -602710, -637998, -240414, -637998, -240414, -892505, 67266,
             -2523697, 67266, -2523697, 1502144, -430924, 353188, -829086, 1144351,
             751293, 134963, -530421, 134963, -530421, -1678055, -376694, 2001680,
             -376694, 2001680, -924345, -1481908, 485773, -159901, -2411308, 1557690,
             -890900, -1528774, -860093, -93097, -2696937, -93097, -2696937, 102660,
             1217670, 1704970, 1217670, 1076643, -76192, 1310498, -33424, -2927261,
             -1848573, -1118716, 211210, -2243700, 1287211, -771360, 1087881, 1127254,
             851908, 1076813, 533463, 614618, 1141282, -435851, 651079, -184126,
             -1319454, 1052982, 600215, -1729581, -922106, 338093, 1290404, 584676,
             2381635, -594599, -165851, 1365268, 692703, -1486396, 664865, 99266,
             -849831, 167690, -1058222, 283714, -671856, -279612, -1005082, -70962,
             -1005082, 340263, -744516, 385986, 728431, -1643215, 1239222, 1085767,
             -1586847, 1085767, -1586847, 1085767, 502779, 713477, 797912, -1192389,
             -191209, -1192389, -672699, -1161953, 216755, -47591, -1860770, 870671>>
        ELSE <<-1178420, 1631005, 578126, 2007417, -1377797, -313920, -1447435, -313920,
             -1447435, -37098, 1857408, -37098, 1857408, 846173, -202799, -1535704,
             -279543, 161637, -279543, 161637, 523299, 161637, 523299, -150393,
             1316653, 412658, 1035248, -3834, 1035248, -38756, -1038783, -38756,
             -1038783, 744423, 345728, 744423, 982578, 1319100, -990881, -1226296,
             -990881, -1226296, -190743, -1226296, 1301396, -247450, 1301396, -20767,
             1301396, 425133, -2185536, 869776, -2149934, -9053, -2149934, -366039,
             1906496, -461342, -157542, -1291187, 576903, 816038, -215881, -550586,
             -44188, 720260, -131555, 1310938, -501635, -131564, 716056, -142680,
             217613, 933570, -185609, 933570, 308581, 95415, -84317, -1402450,
             731075, 21826, -643166, -140155, -1425313, 1327165, 291358, -354023,
             -344233, -354023, -344233, -354023, -344233, 1093156, 80334, -492321,
             489328, 1132382, 266478, 1132382, 266478, 1132382, 266478, 1132382,
             -1572934, 17353, -1572934, 558678, 1415784, -1084019, -1222394, 122861,
             -1222394, 48386, 53608, 930158, 518878, -28592, 518878, -28592,
             518878, -2795958, 1977532, -1902399, -1218500, -700844, -798617, -21899>>]

NormB ==
    [seed \in Seeds |->
        IF seed = 42
        THEN <<266420, 356674, 193279, 800567, 655169, 800567, 655169, 356290,
             68091, 190939, 782590, 699423, 347415, 638762, 374177, 767992,
             374177, 767992, 654651, 708204, 654651, 708204, 925479, 274552,
             273676, 274552, 273676, 732634, 926517, 977882, 605857, 870111,
             810497, 948755, 576956, 948755, 576956, 330956, 881203, 909685,
             881203, 909685, 876087, 379725, 143362, 654738, 995060, 62642,
             403716, 656785, 169172, 214798, 712280, 214798, 712280, 333873,
             592125, 929369, 592125, 498173, 32344, 690371, 966192, 587672,
             239557, 68198, 41270, 921929, 920422, 362239, 440871, 391505,
             880171, 832121, 676877, 899377, 766259, 109338, 206673, 81014,
             620561, 400785, 246641, 134856, 276736, 328707, 130322, 759913,
             492840, 452358, 417363, 213265, 903815, 818989, 343899, 207210,
             949296, 795216, 798722, 66004, 261425, 560754, 832407, 404582,
             832407, 657167, 581317, 135056, 470042, 977618, 253394, 582642,
             774783, 582642, 774783, 582642, 870488, 410386, 957761, 758893,
             424487, 758893, 229919, 965453, 189971, 631445, 220308, 78940>>
        ELSE <<308225, 712621, 847448, 126049, 896304, 575346, 175667, 575346,
             175667, 461303, 138247, 461303, 138247, 457468, 597030, 799551,
             902673, 448233, 902673, 448233, 263871, 448233, 263871, 294105,
             950140, 23086, 216539, 207152, 216539, 488299, 629180, 488299,
             629180, 79296, 655263, 79296, 667623, 841780, 413576, 761139,
             413576, 761139, 202763, 761139, 2017, 275829, 2017, 586494,
             2017, 929550, 634306, 774300, 704481, 450832, 704481, 996147,
             769761, 839098, 833866, 616881, 241847, 575432, 936019, 291146,
             465431, 640501, 316735, 556494, 197557, 706989, 182842, 638075,
             172575, 665640, 673618, 665640, 614176, 630264, 700222, 731783,
             140803, 489472, 778440, 242538, 64304, 860596, 84585, 50196,
             269100, 50196, 269100, 50196, 269100, 755113, 126833, 251288,
             421149, 598609, 925327, 598609, 925327, 598609, 925327, 598609,
             353996, 943820, 353996, 934026, 145891, 309034, 478258, 889749,
             478258, 448723, 209858, 346260, 865738, 263288, 865738, 263288,
             865738, 561839, 781158, 430745, 96900, 954802, 504221, 726914>>]

NormN ==
    [seed \in Seeds |->
        IF seed = 42
        THEN <<2, 2, 2, 4, 4, 2, 2, 2,
             2, 2, 2, 2, 2, 2, 4, 4,
             2, 2, 4, 4, 2, 2, 2, 4,
             4, 2, 2, 2, 2, 2, 2, 2,
             2, 4, 4, 2, 2, 2, 4, 4,
             2, 2, 2, 2, 2, 2, 2, 2,
             2, 2, 2, 4, 4, 2, 2, 2,
             4, 2, 2, 2, 2, 2, 2, 2,
             2, 2, 2, 2, 2, 2, 2, 2,
             2, 2, 2, 2, 2, 2, 2, 2,
             2, 2, 2, 2, 2, 2, 2, 2,
             2, 2, 2, 2, 2, 2, 2, 2,
             2, 2, 2, 2, 2, 2, 4, 2,
             2, 2, 2, 2, 2, 2, 2, 6,
             4, 4, 2, 2, 2, 2, 2, 4,
             2, 2, 2, 2, 2, 2, 2, 2>>
        ELSE <<2, 2, 2, 2, 2, 4, 4, 2,
             2, 4, 4, 2, 2, 2, 2, 2,
             4, 6, 2, 4, 4, 2, 2, 2,
             2, 2, 4, 2, 2, 4, 4, 2,
             2, 4, 2, 2, 2, 2, 4, 6,
             2, 4, 2, 2, 6, 2, 4, 2,
             2, 2, 2, 2, 4, 2, 2, 2,
             2, 2, 2, 2, 2, 2, 2, 2,
             2, 2, 2, 2, 2, 2, 2, 2,
             2, 4, 2, 2, 2, 2, 2, 2,
             2, 2, 2, 2, 2, 2, 2, 6,
             6, 4, 4, 2, 2, 2, 2, 2,
             2, 8, 6, 6, 4, 4, 2, 2,
             4, 2, 2, 2, 2, 2, 4, 2,
             2, 2, 2, 2, 6, 4, 4, 2,
             2, 2, 2, 2, 2, 2, 4, 2>>]

StreamLen == Len(Top30[42])

RNG(seed) == [seed |-> seed, at |-> 0]

RNG_seed(rng, new_seed) == [seed |-> new_seed, at |-> 0]

\* The place in the tables of the next value of gen_.  A generator that has
\* given StreamLen values is past what is tabulated: it stays at the last
\* place, and no run that brings it there is taken (Run).
Raw(rng) == IF rng.at < StreamLen THEN rng.at + 1 ELSE StreamLen

\* The result of a call that took n values, with the generator it leaves.
Drawn(value, rng, n) ==
    [value |-> value,
     rng |-> [rng EXCEPT !.at = IF @ + n < StreamLen THEN @ + n ELSE StreamLen]]

\* floor(u * range) for the next value u in [0, 1) of the generator, from its
\* 30 high bits h: floor(h * range / 2^30), in pieces that fit 32 bits
\* (range < 2^16).
Scaled(rng, range) ==
    LET h == Top30[rng.seed][Raw(rng)]
        hi == h \div 32768
        lo == h % 32768
    IN (hi * range + (lo * range) \div 32768) \div 32768

\* std::uniform_int_distribution<T>(min, max)(gen_): min + floor(u * (max - min + 1)).
uniform_int(rng, min, max) == Drawn(min + Scaled(rng, max - min + 1), rng, 1)

\* std::exponential_distribution<double>(lambda)(gen_) is -log(1 - u) / lambda.
\* lambda is in hundredths, and the result is the inter-arrival time in the
\* nanoseconds its callers convert it to:
\* static_cast<Timestamp>(inter_arrival * 1000000).
exponential(rng, lambda) ==
    Drawn((ExpA[rng.seed][Raw(rng)] * 100
             + (ExpB[rng.seed][Raw(rng)] * 100) \div 1000000) \div lambda,
          rng, 1)

\* std::normal_distribution<double>(mean, stddev)(gen_) is z * stddev + mean.
\* The result is the integer its callers round it to: std::round(value).
normal(rng, mean, stddev) ==
    Drawn((stddev * NormA[rng.seed][Raw(rng)] + mean * 1000000 + 500000
             + (stddev * NormB[rng.seed][Raw(rng)]) \div 1000000) \div 1000000,
          rng, NormN[rng.seed][Raw(rng)])

\* std::bernoulli_distribution(p)(gen_) is u < p.  p is in hundredths.
bernoulli(rng, p) == Drawn(Scaled(rng, 100) < p, rng, 1)

\* ------------------------------------------------------------------- agents
\* An agent value holds the data members of its class and its kind (the
\* dynamic type).  pnl_ is a double that no step reads; it is left out, with
\* the inventory_penalty that only feeds it.  The doubles of the
\* configurations (intensities, probabilities) are in hundredths.
Max(a, b) == IF a >= b THEN a ELSE b

Abs(a) == IF a >= 0 THEN a ELSE -a

MarketMakerConfig ==
    [spread |-> 2, quantity |-> 50, refresh_interval |-> 50000, max_inventory |-> 1000]

TakerConfig(use_market_orders) ==
    [intensity |-> 80, side_bias |-> 50, quantity_mean |-> 40, quantity_std |-> 10,
     use_market_orders |-> use_market_orders]

NoiseTraderConfig ==
    [limit_intensity |-> 150, cancel_intensity |-> 70, quantity_mean |-> 30,
     quantity_std |-> 8, price_volatility |-> 5, cancel_probability |-> 30]

Stepped(agent, events, rng) == [agent |-> agent, events |-> events, rng |-> rng]

MarketMaker_reset(a) ==
    [a EXCEPT !.inventory_ = 0, !.last_refresh_ = 0, !.current_bid_ = 0,
              !.current_ask_ = 0, !.bid_order_id_ = 0, !.ask_order_id_ = 0]

MarketMaker(id, config) ==
    [kind |-> "MarketMaker", id_ |-> id, config_ |-> config,
     inventory_ |-> 0, last_refresh_ |-> 0, current_bid_ |-> 0, current_ask_ |-> 0,
     bid_order_id_ |-> 0, ask_order_id_ |-> 0]

calculate_mid_price == 10000

update_quotes(a, mid_price) ==
    LET half_spread == a.config_.spread \div 2
        bid == mid_price - half_spread
        ask == mid_price + half_spread
    IN IF Abs(a.inventory_) > a.config_.max_inventory \div 2
       THEN IF a.inventory_ > 0
            THEN [a EXCEPT !.current_bid_ = bid, !.current_ask_ = ask - half_spread \div 2]
            ELSE [a EXCEPT !.current_bid_ = bid + half_spread \div 2, !.current_ask_ = ask]
       ELSE [a EXCEPT !.current_bid_ = bid, !.current_ask_ = ask]

cancel_old_orders(a, timestamp) ==
    [agent |-> [a EXCEPT !.bid_order_id_ = 0, !.ask_order_id_ = 0],
     events |->
        (IF a.bid_order_id_ > 0
         THEN <<Event(CANCEL, a.bid_order_id_, BUY, 0, 0)>> ELSE << >>)
        \o (IF a.ask_order_id_ > 0
            THEN <<Event(CANCEL, a.ask_order_id_, SELL, 0, 0)>> ELSE << >>)]

place_new_orders(a, mid_price, timestamp) ==
    IF mid_price > 0
    THEN [agent |-> [a EXCEPT !.bid_order_id_ = timestamp + a.id_,
                              !.ask_order_id_ = timestamp + a.id_ + 1],
          events |-> <<Event(LIMIT, timestamp + a.id_, BUY, a.current_bid_,
                             a.config_.quantity),
                       Event(LIMIT, timestamp + a.id_ + 1, SELL, a.current_ask_,
                             a.config_.quantity)>>]
    ELSE [agent |-> a, events |-> << >>]

MarketMaker_step(a, rng, timestamp) ==
    LET mid_price == calculate_mid_price
        quoted == IF mid_price > 0 THEN update_quotes(a, mid_price) ELSE a
    IN IF timestamp - quoted.last_refresh_ >= quoted.config_.refresh_interval
       THEN LET c == cancel_old_orders(quoted, timestamp)
                p == place_new_orders(c.agent, mid_price, timestamp)
            IN Stepped([p.agent EXCEPT !.last_refresh_ = timestamp],
                       c.events \o p.events, rng)
       ELSE Stepped(quoted, << >>, rng)

MarketMaker_on_trade(a, trade) ==
    IF trade.maker_id = a.bid_order_id_
    THEN [a EXCEPT !.inventory_ = @ - trade.quantity, !.bid_order_id_ = 0]
    ELSE IF trade.maker_id = a.ask_order_id_
         THEN [a EXCEPT !.inventory_ = @ + trade.quantity, !.ask_order_id_ = 0]
         ELSE a

Taker_reset(a) == [a EXCEPT !.inventory_ = 0, !.next_order_time_ = 0]

Taker(id, config) ==
    [kind |-> "Taker", id_ |-> id, config_ |-> config,
     inventory_ |-> 0, next_order_time_ |-> 0]

\* What a member function that draws from rng_ returns, with the generator
\* it leaves.
Returned(value, rng) == [value |-> value, rng |-> rng]

calculate_next_order_time(a, rng, current_time) ==
    LET inter_arrival == exponential(rng, a.config_.intensity)
    IN Returned(current_time + inter_arrival.value, inter_arrival.rng)

\* Taker::generate_order_quantity and NoiseTrader::generate_order_quantity.
generate_order_quantity(config, rng) ==
    LET quantity == normal(rng, config.quantity_mean, config.quantity_std)
    IN Returned(Max(1, quantity.value), quantity.rng)

Taker_generate_order_side(a, rng) ==
    LET b == bernoulli(rng, a.config_.side_bias)
    IN Returned(IF b.value THEN BUY ELSE SELL, b.rng)

generate_aggressive_price(side, current_bid, current_ask) ==
    IF side = BUY THEN current_ask + 1 ELSE current_bid - 1

Taker_step(a, rng, timestamp) ==
    IF timestamp >= a.next_order_time_
    THEN LET quantity == generate_order_quantity(a.config_, rng)
             side == Taker_generate_order_side(a, quantity.rng)
             order_id == timestamp + a.id_
             next == calculate_next_order_time(a, side.rng, timestamp)
         IN Stepped([a EXCEPT !.next_order_time_ = next.value],
                    IF a.config_.use_market_orders
                    THEN <<Event(MARKET, order_id, side.value, 0, quantity.value)>>
                    ELSE <<Event(LIMIT, order_id, side.value,
                                 generate_aggressive_price(side.value, 10000, 10002),
                                 quantity.value)>>,
                    next.rng)
    ELSE Stepped(a, << >>, rng)

\* Only pnl_ is written.
Taker_on_trade(a, trade) == a

\* active_orders_ is a std::unordered_map<OrderId, Order>; its value here is
\* the sequence of its orders in the order an iterator visits them from
\* begin().  With the hash of an id the id itself and bucket_count()
\* BucketCount (what the first insertion makes it, and what it stays while
\* the map holds no more than that many orders), a new key is put in front of
\* the keys of its bucket, or at begin() when its bucket is empty.
BucketCount == 13

EmptyOrders == << >>

InsertAt(orders, i, order) ==
    SubSeq(orders, 1, i - 1) \o <<order>> \o SubSeq(orders, i, Len(orders))

\* active_orders_[order.id] = order.
ActivePut(orders, order) ==
    IF FirstWithId(orders, order.id) # 0
    THEN [orders EXCEPT ![FirstWithId(orders, order.id)] = order]
    ELSE IF \E i \in DOMAIN orders : orders[i].id % BucketCount = order.id % BucketCount
         THEN InsertAt(orders,
                       CHOOSE i \in DOMAIN orders :
                          /\ orders[i].id % BucketCount = order.id % BucketCount
                          /\ \A j \in 1..(i - 1) :
                                orders[j].id % BucketCount # order.id % BucketCount,
                       order)
         ELSE <<order>> \o orders

\* active_orders_.erase(order_id).
ActiveErase(orders, order_id) ==
    IF FirstWithId(orders, order_id) # 0
    THEN EraseAt(orders, FirstWithId(orders, order_id))
    ELSE orders

NoiseTrader_reset(a) ==
    [a EXCEPT !.inventory_ = 0, !.next_limit_order_time_ = 0, !.next_cancel_time_ = 0,
              !.active_orders_ = EmptyOrders, !.reference_price_ = 10000]

NoiseTrader(id, config) ==
    [kind |-> "NoiseTrader", id_ |-> id, config_ |-> config,
     inventory_ |-> 0, next_limit_order_time_ |-> 0, next_cancel_time_ |-> 0,
     active_orders_ |-> EmptyOrders, reference_price_ |-> 10000]

calculate_next_limit_order_time(a, rng, current_time) ==
    LET inter_arrival == exponential(rng, a.config_.limit_intensity)
    IN Returned(current_time + inter_arrival.value, inter_arrival.rng)

calculate_next_cancel_time(a, rng, current_time) ==
    LET inter_arrival == exponential(rng, a.config_.cancel_intensity)
    IN Returned(current_time + inter_arrival.value, inter_arrival.rng)

NoiseTrader_generate_order_side(rng) ==
    LET b == bernoulli(rng, 50)
    IN Returned(IF b.value THEN BUY ELSE SELL, b.rng)

generate_limit_price(a, rng, side, reference_price) ==
    LET price_offset == normal(rng, 0, a.config_.price_volatility)
    IN Returned(Max(1, reference_price + price_offset.value), price_offset.rng)

maybe_cancel_random_order(a, rng, timestamp) ==
    IF a.active_orders_ = EmptyOrders
    THEN Stepped(a, << >>, rng)
    ELSE LET b == bernoulli(rng, a.config_.cancel_probability)
         IN IF b.value
            THEN LET n == uniform_int(b.rng, 0, Len(a.active_orders_) - 1)
                     order_id == a.active_orders_[n.value + 1].id
                 IN Stepped([a EXCEPT !.active_orders_ = EraseAt(@, n.value + 1)],
                            <<Event(CANCEL, order_id, BUY, 0, 0)>>, n.rng)
            ELSE Stepped(a, << >>, b.rng)

NoiseTrader_step(a, rng, timestamp) ==
    LET placed ==
            IF timestamp >= a.next_limit_order_time_
            THEN LET quantity == generate_order_quantity(a.config_, rng)
                     side == NoiseTrader_generate_order_side(quantity.rng)
                     price == generate_limit_price(a, side.rng, side.value,
                                                   a.reference_price_)
                     offset == uniform_int(price.rng, 0, 1000)
                     order_id == timestamp + a.id_ + offset.value
                     next == calculate_next_limit_order_time(a, offset.rng, timestamp)
                 IN Stepped([a EXCEPT
                                !.active_orders_ =
                                    ActivePut(@, Order(order_id, side.value, price.value,
                                                       quantity.value)),
                                !.next_limit_order_time_ = next.value],
                            <<Event(LIMIT, order_id, side.value, price.value,
                                    quantity.value)>>,
                            next.rng)
            ELSE Stepped(a, << >>, rng)
    IN IF timestamp >= placed.agent.next_cancel_time_
       THEN LET c == maybe_cancel_random_order(placed.agent, placed.rng, timestamp)
                next == calculate_next_cancel_time(c.agent, c.rng, timestamp)
            IN Stepped([c.agent EXCEPT !.next_cancel_time_ = next.value],
                       placed.events \o c.events, next.rng)
       ELSE placed

NoiseTrader_on_trade(a, trade) ==
    LET counted ==
            IF trade.maker_id = a.id_ /\ FirstWithId(a.active_orders_, trade.maker_id) # 0
            THEN IF a.active_orders_[FirstWithId(a.active_orders_, trade.maker_id)].side = BUY
                 THEN [a EXCEPT !.inventory_ = @ + trade.quantity]
                 ELSE [a EXCEPT !.inventory_ = @ - trade.quantity]
            ELSE a
    IN [counted EXCEPT !.active_orders_ = ActiveErase(@, trade.maker_id)]

\* The virtual calls.
Agent_step(a, rng, timestamp) ==
    CASE a.kind = "MarketMaker" -> MarketMaker_step(a, rng, timestamp)
      [] a.kind = "Taker" -> Taker_step(a, rng, timestamp)
      [] a.kind = "NoiseTrader" -> NoiseTrader_step(a, rng, timestamp)

Agent_on_trade(a, trade) ==
    CASE a.kind = "MarketMaker" -> MarketMaker_on_trade(a, trade)
      [] a.kind = "Taker" -> Taker_on_trade(a, trade)
      [] a.kind = "NoiseTrader" -> NoiseTrader_on_trade(a, trade)

Agent_reset(a) ==
    CASE a.kind = "MarketMaker" -> MarketMaker_reset(a)
      [] a.kind = "Taker" -> Taker_reset(a)
      [] a.kind = "NoiseTrader" -> NoiseTrader_reset(a)

\* ------------------------------------------------------------- AgentManager
\* agent_lookup_ maps an id to the place in agents_ of the agent it points to.
EmptyAgentManager == [agents_ |-> << >>, agent_lookup_ |-> EmptyMap]

add_agent(am, agent) ==
    [agents_ |-> Append(am.agents_, agent),
     agent_lookup_ |-> MapPut(am.agent_lookup_, agent.id_, Len(am.agents_) + 1)]

\* The loop of AgentManager::step from the i-th agent on.  calls lists the
\* virtual calls made so far, in the order they are made: the place in
\* agents_ of the agent called, its id, and what the call returned.
RECURSIVE AgentManager_step_from(_, _, _, _, _, _)
AgentManager_step_from(am, rng, timestamp, i, all_events, calls) ==
    IF i > Len(am.agents_)
    THEN [agent_manager |-> am, events |-> all_events, rng |-> rng, calls |-> calls]
    ELSE With(Agent_step(am.agents_[i], rng, timestamp), LAMBDA s :
         AgentManager_step_from(
             [am EXCEPT !.agents_[i] = s.agent], s.rng, timestamp, i + 1,
             all_events \o s.events,
             Append(calls, [call |-> "step", agent |-> i, id |-> s.agent.id_,
                            timestamp |-> timestamp, events |-> s.events])))

\* AgentManager::step whose loop starts at the second agent.
AgentManager_step_skipfirst(am, rng, timestamp) ==
    With(am, LAMBDA manager :
    With(rng, LAMBDA generator :
    AgentManager_step_from(manager, generator, timestamp, 2, << >>, << >>)))

AgentManager_step(am, rng, timestamp) ==
    With(am, LAMBDA manager :
    With(rng, LAMBDA generator :
    AgentManager_step_from(manager, generator, timestamp, 1, << >>, << >>)))

\* on_trade is called on every agent, in the order of agents_.
AgentManager_notify_trade(am, trade) ==
    [agent_manager |->
        [am EXCEPT !.agents_ =
            [i \in DOMAIN am.agents_ |-> Agent_on_trade(am.agents_[i], trade)]],
     calls |-> [i \in DOMAIN am.agents_ |->
                  [call |-> "on_trade", agent |-> i, id |-> am.agents_[i].id_,
                   trade |-> trade]]]

AgentManager_reset(am) ==
    [am EXCEPT !.agents_ = [i \in DOMAIN am.agents_ |-> Agent_reset(am.agents_[i])]]

\* ---------------------------------------------------------------- Simulator
\* simulation_time_seconds, the wall-clock time of the loop, is left out of
\* RunResult; output_dir is empty and stays so (set_output_dir, which changes
\* nothing else, is not called), so nothing is saved.  calls_ is not a
\* member of Simulator: it lists, for each process_simulation_step since the
\* last reset, the calls that step made on the agents and on the engine, in
\* the order it made them.
SimulationConfig(seed, start_time, time_step) ==
    [seed |-> seed, start_time |-> start_time, time_step |-> time_step]

EmptyCollector == [trades_ |-> << >>, snapshots_ |-> << >>, agent_pnl_ |-> << >>]

Simulator(config) ==
    [config_ |-> config,
     rng_ |-> RNG(config.seed),
     matching_engine_ |-> EmptyBook,
     agent_manager_ |-> EmptyAgentManager,
     data_collector_ |-> EmptyCollector,
     data_collection_enabled_ |-> TRUE,
     current_time_ |-> config.start_time,
     current_step_ |-> 0,
     events_processed_ |-> 0,
     calls_ |-> << >>]

top_of_book(b, timestamp) ==
    [best_bid |-> best_bid_price(b), best_ask |-> best_ask_price(b),
     best_bid_qty |-> best_bid_quantity(b), best_ask_qty |-> best_ask_quantity(b),
     last_trade_price |-> b.last_trade_price_, timestamp |-> timestamp]

collect_market_data(sim) ==
    IF sim.data_collection_enabled_
    THEN [sim EXCEPT !.data_collector_.snapshots_ =
             Append(@, top_of_book(sim.matching_engine_, sim.current_time_))]
    ELSE sim

collect_agent_data(sim) ==
    IF sim.data_collection_enabled_
    THEN [sim EXCEPT !.data_collector_.agent_pnl_ =
             @ \o [i \in DOMAIN sim.agent_manager_.agents_ |->
                      [agent_id |-> sim.agent_manager_.agents_[i].id_,
                       timestamp |-> sim.current_time_,
                       inventory |-> sim.agent_manager_.agents_[i].inventory_]]]
    ELSE sim

Simulator_reset(sim) ==
    [sim EXCEPT !.matching_engine_ = clear(@),
                !.agent_manager_ = AgentManager_reset(@),
                !.data_collector_ = EmptyCollector,
                !.current_time_ = sim.config_.start_time,
                !.current_step_ = 0,
                !.events_processed_ = 0,
                !.rng_ = RNG_seed(@, sim.config_.seed),
                !.calls_ = << >>]

initialize_agents(sim, maker_config, taker_config, noise_config) ==
    [sim EXCEPT !.agent_manager_ =
        add_agent(add_agent(add_agent(@, MarketMaker(1, maker_config)),
                            Taker(2, taker_config)),
                  NoiseTrader(3, noise_config))]

\* for (const auto& trade : trades) agent_manager_.notify_trade(trade);
RECURSIVE NotifyAgents(_, _, _)
NotifyAgents(am, trades, calls) ==
    IF trades = << >> THEN [agent_manager |-> am, calls |-> calls]
    ELSE With(AgentManager_notify_trade(am, Head(trades)), LAMBDA notified :
         NotifyAgents(notified.agent_manager, Tail(trades), calls \o notified.calls))

process_simulation_step(sim) ==
    With(AgentManager_step(sim.agent_manager_, sim.rng_, sim.current_time_), LAMBDA s :
    With(process_events(sim.matching_engine_, s.events), LAMBDA out :
    With(NotifyAgents(s.agent_manager, out.trades,
                      Append(s.calls, [call |-> "process_events",
                                       events |-> s.events,
                                       book |-> sim.matching_engine_,
                                       trades |-> out.trades])), LAMBDA notified :
    With([sim EXCEPT !.rng_ = s.rng,
                     !.matching_engine_ = out.book,
                     !.events_processed_ = @ + Len(s.events),
                     !.agent_manager_ = notified.agent_manager,
                     !.calls_ = Append(@, notified.calls)], LAMBDA processed :
    With(IF sim.current_step_ % 100 = 0
         THEN collect_market_data(processed) ELSE processed, LAMBDA market :
    IF sim.current_step_ % 1000 = 0 THEN collect_agent_data(market) ELSE market)))))

\* The for loop of run.
RECURSIVE run_loop(_, _)
run_loop(sim, n_steps) ==
    IF sim.current_step_ < n_steps
    THEN With(process_simulation_step(sim), LAMBDA stepped :
         run_loop([stepped EXCEPT !.current_time_ = @ + stepped.config_.time_step,
                                  !.current_step_ = @ + 1],
                  n_steps))
    ELSE sim

\* What run and run_with_agents do once the agents are registered: the loop,
\* the final collection and the RunResult.
run_registered(ready, n_steps) ==
    With(run_loop(ready, n_steps), LAMBDA stepped :
    With(collect_agent_data(collect_market_data(stepped)), LAMBDA done :
    [sim |-> done,
     result |-> [trades |-> done.data_collector_.trades_,
                 market_snapshots |-> done.data_collector_.snapshots_,
                 agent_pnl |-> done.data_collector_.agent_pnl_,
                 total_events_processed |-> done.events_processed_,
                 total_trades |-> done.matching_engine_.trade_count_,
                 simulation_duration |->
                     done.current_time_ - done.config_.start_time]]))

Simulator_run(sim, n_steps, maker_config, taker_config, noise_config) ==
    With(initialize_agents(Simulator_reset(sim), maker_config, taker_config,
                           noise_config), LAMBDA ready :
    run_registered(ready, n_steps))

\* for (auto& agent : agents) agent_manager_.add_agent(std::move(agent));
RECURSIVE add_agents(_, _)
add_agents(am, agents) ==
    IF agents = << >> THEN am
    ELSE add_agents(add_agent(am, Head(agents)), Tail(agents))

run_with_agents(sim, n_steps, agents) ==
    With([Simulator_reset(sim) EXCEPT !.agent_manager_ = add_agents(@, agents)],
         LAMBDA ready :
    run_registered(ready, n_steps))

\* -------------------------------------------------------------------- state
VARIABLES
    buy_levels_,        \* OrderBook::buy_levels_   : price -> level
    sell_levels_,       \* OrderBook::sell_levels_  : price -> level
    order_lookup_,      \* OrderBook::order_lookup_ : id -> (price, side)
    order_count_,       \* OrderBook::order_count_
    last_trade_price_,  \* OrderBook::last_trade_price_
    total_volume_,      \* OrderBook::total_volume_
    trade_count_,       \* OrderBook::trade_count_
    ret,                \* the bool the last operation returned: "true", "false",
                        \* or "void" when it returns none
    trades,             \* the trades the last operation returned
    makers,             \* the maker_order snapshot behind each of them
    emitted_volume,     \* sum of the quantities of the trades returned since
                        \* construction or the last clear
    emitted_count,      \* the number of those trades
    last_emitted_price, \* the price of the last of them, 0 when there is none
    ops,                \* the calls made since construction or the last
                        \* clear, a process_events call counted once for
                        \* each event of its vector (once when it is empty)
    gone,               \* the ids under which an order has been fully filled
                        \* or cancelled by a call on the book itself and no
                        \* order has been admitted since
    sim,                \* the Simulator object
    history             \* the calls made on it, each run with its arguments
                        \* and the RunResult it returned

bookvars == <<buy_levels_, sell_levels_, order_lookup_, order_count_,
              last_trade_price_, total_volume_, trade_count_>>

vars == <<buy_levels_, sell_levels_, order_lookup_, order_count_,
          last_trade_price_, total_volume_, trade_count_,
          ret, trades, makers, emitted_volume, emitted_count, last_emitted_price,
          ops, gone, sim, history>>

\* The engine and its book when they are used on their own.
enginevars == <<buy_levels_, sell_levels_, order_lookup_, order_count_,
                last_trade_price_, total_volume_, trade_count_,
                ret, trades, makers, emitted_volume, emitted_count,
                last_emitted_price, ops, gone>>

simvars == <<sim, history>>

Book ==
    [buy_levels_ |-> buy_levels_, sell_levels_ |-> sell_levels_,
     order_lookup_ |-> order_lookup_, order_count_ |-> order_count_,
     last_trade_price_ |-> last_trade_price_, total_volume_ |-> total_volume_,
     trade_count_ |-> trade_count_]

RECURSIVE SumQuantity(_)
SumQuantity(s) == IF s = << >> THEN 0 ELSE Head(s).quantity + SumQuantity(Tail(s))

\* The ids of the makers a matcher call filled completely: each time it pops
\* an order off a queue it has emitted a trade for it, and a partial fill is
\* its last trade.  before is size() when the matcher was called.
FullyFilled(before, m) ==
    {m.makers[i].id : i \in 1..(before - size(m.book))}

\* A call that handled n events returns: its outcome becomes the state.
Returns(out, n) ==
    /\ out.book.order_count_ <= MaxOrders
    /\ out.book.trade_count_ <= MaxTrades
    /\ ops + n <= MaxOps
    /\ buy_levels_' = out.book.buy_levels_
    /\ sell_levels_' = out.book.sell_levels_
    /\ order_lookup_' = out.book.order_lookup_
    /\ order_count_' = out.book.order_count_
    /\ last_trade_price_' = out.book.last_trade_price_
    /\ total_volume_' = out.book.total_volume_
    /\ trade_count_' = out.book.trade_count_
    /\ ret' = out.ret
    /\ trades' = out.trades
    /\ makers' = out.makers
    /\ emitted_volume' = emitted_volume + SumQuantity(out.trades)
    /\ emitted_count' = emitted_count + Len(out.trades)
    /\ last_emitted_price' = IF out.trades = << >> THEN last_emitted_price
                                ELSE out.trades[Len(out.trades)].price
    /\ ops' = ops + n
    /\ UNCHANGED simvars

\* A call on the book, or on the engine with one event, returns.
Return(out) == Returns(out, 1)

\* A book and an engine as constructed.
InitEngine ==
    /\ buy_levels_ = EmptyMap
    /\ sell_levels_ = EmptyMap
    /\ order_lookup_ = EmptyMap
    /\ order_count_ = 0
    /\ last_trade_price_ = 0
    /\ total_volume_ = 0
    /\ trade_count_ = 0
    /\ ret = "void"
    /\ trades = << >>
    /\ makers = << >>
    /\ emitted_volume = 0
    /\ emitted_count = 0
    /\ last_emitted_price = 0
    /\ ops = 0
    /\ gone = {}

\* The values Simulator is constructed and run with.  time_step 100000 is
\* twice the market maker's refresh interval.
TimeSteps == {1000, 100000}
StepCounts == {0, 1, 3}
SimulationConfigs == {SimulationConfig(42, 0, time_step) : time_step \in TimeSteps}
TakerConfigs == {TakerConfig(use_market_orders) : use_market_orders \in BOOLEAN}

\* The values update_config is called with: another time step, and the other
\* seed with a start time and a time step of one refresh interval.
NewConfigs == {SimulationConfig(42, 0, 2000), SimulationConfig(12345, 50000, 50000)}

\* The values the agents' step, on_trade and update_config are called with by
\* the owner of the Simulator: the time of one refresh interval, a trade whose
\* maker id is the one a market maker holds while it has no quote, taken by
\* the Taker, and for each class of agent a configuration other than the one
\* its agents are made with.
AgentTimestamps == {50000}
AgentTrades == {Trade(0, 2, 10000, 10)}
NewAgentConfigs(a) ==
    CASE a.kind = "MarketMaker" ->
            {[MarketMakerConfig EXCEPT !.spread = 4, !.quantity = 7]}
      [] a.kind = "Taker" ->
            {[TakerConfig(FALSE) EXCEPT !.quantity_mean = 20]}
      [] a.kind = "NoiseTrader" ->
            {[NoiseTraderConfig EXCEPT !.quantity_mean = 20, !.price_volatility = 3]}

\* The vectors run_with_agents is called with.  Its agents are market makers:
\* a MarketMaker never reads the generator it is constructed with, which is
\* the caller's, so that generator is no part of the state.
CustomAgents == {<< >>, <<MarketMaker(4, MarketMakerConfig)>>}

Init ==
    /\ InitEngine
    /\ sim = Simulator(SimulationConfig(42, 0, 1000))
    /\ history = << >>

\* A Simulator as constructed.
InitSim ==
    /\ InitEngine
    /\ sim \in {Simulator(config) : config \in SimulationConfigs}
    /\ history = << >>

Orders == {Order(id, side, price, quantity) :
              id \in OrderIds, side \in Side, price \in Prices, quantity \in LimitQtys}

Events ==
    {Event(LIMIT, id, side, price, quantity) :
        id \in OrderIds, side \in Side, price \in Prices, quantity \in LimitQtys}
    \cup {Event(MARKET, id, side, 0, quantity) :
        id \in OrderIds, side \in Side, quantity \in MarketQtys}
    \cup {Event(CANCEL, id, BUY, 0, 0) : id \in OrderIds}
    \cup {Event(UNKNOWN, id, BUY, 0, 0) : id \in OrderIds}

\* OrderBook::add_limit_order called directly.
AddLimitOrder(order) ==
    /\ order \in Orders
    /\ LET a == add_limit_order(Book, order)
       IN /\ Return(Outcome(a.book, << >>, << >>, RetOf(a.ret)))
          /\ gone' = IF a.ret THEN gone \ {order.id} ELSE gone

\* OrderBook::add_market_order called directly.
AddMarketOrder(side, quantity, taker_id) ==
    /\ side \in Side
    /\ LET m == add_market_order(Book, side, quantity, taker_id)
       IN /\ Return(Outcome(m.book, m.trades, m.makers, "void"))
          /\ gone' = gone \cup FullyFilled(size(Book), m)

\* OrderBook::cancel_order called directly.
CancelOrder(order_id) ==
    /\ order_id \in OrderIds
    /\ LET c == cancel_order(Book, order_id)
       IN /\ Return(Outcome(c.book, << >>, << >>, RetOf(c.ret)))
          /\ gone' = IF c.ret THEN gone \cup {order_id} ELSE gone

\* OrderBook::clear, also reached through MatchingEngine::clear.
Clear ==
    LET b == clear(Book)
    IN /\ buy_levels_' = b.buy_levels_
       /\ sell_levels_' = b.sell_levels_
       /\ order_lookup_' = b.order_lookup_
       /\ order_count_' = b.order_count_
       /\ last_trade_price_' = b.last_trade_price_
       /\ total_volume_' = b.total_volume_
       /\ trade_count_' = b.trade_count_
       /\ ret' = "void"
       /\ trades' = << >>
       /\ makers' = << >>
       /\ emitted_volume' = 0
       /\ emitted_count' = 0
       /\ last_emitted_price' = 0
       /\ ops' = 0
       /\ gone' = {}
       /\ UNCHANGED simvars

\* MatchingEngine::process_event.
ProcessEvent(event) ==
    /\ event \in Events
    /\ LET out == process_event(Book, event)
       IN /\ Return(out)
          /\ gone' = gone    \* kept for the calls made on the book itself

\* The vectors handed to process_events: the empty one, and every vector of
\* two of a Limit event, a Market event that trades with it and its Cancel.
BatchEvents ==
    {Event(LIMIT, 1, SELL, 1, 1), Event(MARKET, 2, BUY, 0, 1),
     Event(CANCEL, 1, BUY, 0, 0)}

Batches == {<< >>} \cup {<<e1, e2>> : e1 \in BatchEvents, e2 \in BatchEvents}

\* MatchingEngine::process_events: one call, all its events.
ProcessEvents(events) ==
    /\ events \in Batches
    /\ LET out == process_events(Book, events)
       IN /\ Returns(out, IF events = << >> THEN 1 ELSE Len(events))
          /\ gone' = gone    \* kept for the calls made on the book itself

Next ==
    \/ \E order \in Orders : AddLimitOrder(order)
    \/ \E side \in Side, quantity \in MarketQtys, taker_id \in TakerIds :
          AddMarketOrder(side, quantity, taker_id)
    \/ \E order_id \in OrderIds : CancelOrder(order_id)
    \/ Clear

\* The calls that make MatchingEngine change its book.  The calls made on
\* the book get_order_book() hands out are the actions of Next.  The
\* observers set_trade_callback and set_order_callback install are read
\* only by notify_trade and notify_order, whose calls every outcome lists:
\* what an installed observer receives is TradeObserverCalls and
\* OrderObserverCalls of that list.
NextEngine ==
    \/ \E event \in Events : ProcessEvent(event)
    \/ \E events \in Batches : ProcessEvents(events)
    \/ Clear

\* Simulator::run, for the runs that stay within the tabulated values of
\* the generator.
Run(n_steps, maker_config, taker_config, noise_config) ==
    /\ Len(history) < MaxCalls
    /\ \E r \in {Simulator_run(sim, n_steps, maker_config, taker_config, noise_config)} :
          /\ r.sim.rng_.at < StreamLen
          /\ sim' = r.sim
          /\ history' = Append(history,
                               [call |-> "run", n_steps |-> n_steps,
                                maker_config |-> maker_config,
                                taker_config |-> taker_config,
                                noise_config |-> noise_config,
                                result |-> r.result])
    /\ UNCHANGED enginevars

\* Simulator::run_with_agents, within the tabulated values likewise.
RunWithAgents(n_steps, agents) ==
    /\ Len(history) < MaxCalls
    /\ \E r \in {run_with_agents(sim, n_steps, agents)} :
          /\ r.sim.rng_.at < StreamLen
          /\ sim' = r.sim
          /\ history' = Append(history,
                               [call |-> "run_with_agents", n_steps |-> n_steps,
                                agents |-> agents, result |-> r.result])
    /\ UNCHANGED enginevars

\* Simulator::reset.
Reset ==
    /\ Len(history) < MaxCalls
    /\ sim' = Simulator_reset(sim)
    /\ history' = Append(history, [call |-> "reset"])
    /\ UNCHANGED enginevars

\* Simulator::update_config: config_ = config, and nothing else; the
\* generator keeps its seed and current_time_ its value until the next reset.
UpdateConfig(config) ==
    /\ Len(history) < MaxCalls
    /\ sim' = [sim EXCEPT !.config_ = config]
    /\ history' = Append(history, [call |-> "update_config", config |-> config])
    /\ UNCHANGED enginevars

\* Simulator::set_data_collection.
SetDataCollection(enabled) ==
    /\ Len(history) < MaxCalls
    /\ sim' = [sim EXCEPT !.data_collection_enabled_ = enabled]
    /\ history' = Append(history, [call |-> "set_data_collection",
                                   enabled |-> enabled])
    /\ UNCHANGED enginevars

\* The agents are reached through get_agent_manager(): get_agents() gives
\* every agent of agents_, not const, also one whose id a later add_agent has
\* given to another agent in agent_lookup_; get_agent(id) gives the agent
\* agent_lookup_ holds for the id, which is one of them; and the caller may
\* keep a pointer to an agent it hands to run_with_agents.  step, on_trade and
\* reset are public members of Agent.  The agents of initialize_agents draw
\* from rng_; the calls are no part of a simulation step, so calls_ is left
\* as it is.
AgentStep(i, timestamp) ==
    /\ Len(history) < MaxCalls
    /\ i \in DOMAIN sim.agent_manager_.agents_
    /\ \E s \in {Agent_step(sim.agent_manager_.agents_[i], sim.rng_, timestamp)} :
          /\ s.rng.at < StreamLen
          /\ sim' = [sim EXCEPT !.agent_manager_.agents_[i] = s.agent,
                                !.rng_ = s.rng]
          /\ history' = Append(history, [call |-> "step", agent |-> i,
                                         timestamp |-> timestamp,
                                         events |-> s.events])
    /\ UNCHANGED enginevars

AgentOnTrade(i, trade) ==
    /\ Len(history) < MaxCalls
    /\ i \in DOMAIN sim.agent_manager_.agents_
    /\ sim' = [sim EXCEPT !.agent_manager_.agents_[i] = Agent_on_trade(@, trade)]
    /\ history' = Append(history, [call |-> "on_trade", agent |-> i, trade |-> trade])
    /\ UNCHANGED enginevars

AgentReset(i) ==
    /\ Len(history) < MaxCalls
    /\ i \in DOMAIN sim.agent_manager_.agents_
    /\ sim' = [sim EXCEPT !.agent_manager_.agents_[i] = Agent_reset(@)]
    /\ history' = Append(history, [call |-> "agent_reset", agent |-> i])
    /\ UNCHANGED enginevars

\* MarketMaker::update_config, Taker::update_config and
\* NoiseTrader::update_config, on a kept pointer or on an Agent* cast down:
\* config_ = config.
AgentUpdateConfig(i, config) ==
    /\ Len(history) < MaxCalls
    /\ i \in DOMAIN sim.agent_manager_.agents_
    /\ sim' = [sim EXCEPT !.agent_manager_.agents_[i].config_ = config]
    /\ history' = Append(history, [call |-> "agent_update_config", agent |-> i,
                                   config |-> config])
    /\ UNCHANGED enginevars

NextSim ==
    \/ \E n_steps \in StepCounts, taker_config \in TakerConfigs :
          Run(n_steps, MarketMakerConfig, taker_config, NoiseTraderConfig)
    \/ \E n_steps \in StepCounts, agents \in CustomAgents :
          RunWithAgents(n_steps, agents)
    \/ Reset
    \/ \E config \in NewConfigs : UpdateConfig(config)
    \/ \E enabled \in BOOLEAN : SetDataCollection(enabled)
    \/ \E i \in DOMAIN sim.agent_manager_.agents_, timestamp \in AgentTimestamps :
          AgentStep(i, timestamp)
    \/ \E i \in DOMAIN sim.agent_manager_.agents_, trade \in AgentTrades :
          AgentOnTrade(i, trade)
    \/ \E i \in DOMAIN sim.agent_manager_.agents_ : AgentReset(i)
    \/ \E i \in DOMAIN sim.agent_manager_.agents_ :
          \E config \in NewAgentConfigs(sim.agent_manager_.agents_[i]) :
             AgentUpdateConfig(i, config)

\* The book driven through its own public operations.
Spec == Init /\ [][Next]_vars

\* The book driven through MatchingEngine: events and clear.
SpecEngine == Init /\ [][NextEngine]_vars

\* A Simulator driven through run, run_with_agents, reset, update_config and
\* set_data_collection, and its agents through step, on_trade, reset and
\* update_config.
SpecSim == InitSim /\ [][NextSim]_vars

\* ================================================================== claims
\* Readings of the state the claims are stated in.
\* A call is made in this state: fewer than MaxOps operations have been
\* called since construction or the last clear.
Callable == ops < MaxOps

SideLevels(b, side) == IF side = BUY THEN b.buy_levels_ ELSE b.sell_levels_

Opposite(side) == IF side = BUY THEN SELL ELSE BUY

\* The orders resting in a level map, as (side, price, position) places.
Places(b) ==
    UNION {UNION {{<<side, price, i>> : i \in DOMAIN SideLevels(b, side)[price].orders_} :
                     price \in DOMAIN SideLevels(b, side)} :
              side \in Side}

OrderAtPlace(b, pl) == SideLevels(b, pl[1])[pl[2]].orders_[pl[3]]

RestingIds(b) == {OrderAtPlace(b, pl).id : pl \in Places(b)}

RECURSIVE SumOver(_, _)
SumOver(f, keys) ==
    IF keys = {} THEN 0
    ELSE LET k == CHOOSE x \in keys : TRUE IN f[k] + SumOver(f, keys \ {k})

\* Sum over the levels of both maps of the number of orders queued there.
QueuedOrders(b) ==
    SumOver([p \in DOMAIN b.buy_levels_ |-> Len(b.buy_levels_[p].orders_)],
            DOMAIN b.buy_levels_)
    + SumOver([p \in DOMAIN b.sell_levels_ |-> Len(b.sell_levels_[p].orders_)],
              DOMAIN b.sell_levels_)

\* ---------------------------------------------------------------------- C1
\* C1: the key set of order_lookup_ is exactly the set of ids of the orders
\* resting in the level queues, and each entry's (price, side) names a level
\* in which an order with that id rests.
C1_IndexMatchesResting ==
    /\ DOMAIN order_lookup_ = RestingIds(Book)
    /\ \A id \in DOMAIN order_lookup_ :
          \E pl \in Places(Book) :
             /\ OrderAtPlace(Book, pl).id = id
             /\ pl[1] = order_lookup_[id].side
             /\ pl[2] = order_lookup_[id].price

\* ---------------------------------------------------------------------- C2
\* C2: a limit order whose id is already a key of order_lookup_ is rejected:
\* add_limit_order returns false, a Limit event carrying it returns zero
\* trades, and the book is unchanged.
C2_DuplicateIdRejected ==
    [][/\ \A order \in Orders :
             (order.id \in DOMAIN order_lookup_ /\ AddLimitOrder(order))
                => (ret' = "false" /\ UNCHANGED bookvars)
       /\ \A event \in Events :
             (/\ event.type = LIMIT
              /\ event.order_id \in DOMAIN order_lookup_
              /\ ProcessEvent(event))
                => (trades' = << >> /\ UNCHANGED bookvars)]_vars

\* ---------------------------------------------------------------------- C3
\* C3: total_volume_ equals the sum of the quantities of all trades emitted
\* since construction or the last clear, partial fills included.
C3_VolumeIsSumOfTrades == total_volume_ = emitted_volume

\* ---------------------------------------------------------------------- C4
\* C4: after every event processed by the engine, one side of the book is
\* empty or best_bid < best_ask.
C4_NeverCrossed ==
    \/ DOMAIN buy_levels_ = {}
    \/ DOMAIN sell_levels_ = {}
    \/ best_bid_price(Book) < best_ask_price(Book)

\* A marketable limit has just been processed (only a Limit event returns
\* trades together with an admission) while both sides hold orders.
C4_Witness ==
    /\ ret = "true"
    /\ trades # << >>
    /\ DOMAIN buy_levels_ # {}
    /\ DOMAIN sell_levels_ # {}

\* ---------------------------------------------------------------------- C5
Marketable(b, event) ==
    /\ event.type = LIMIT
    /\ is_valid_price(event.price)
    /\ is_valid_quantity(event.quantity)
    /\ IF event.side = BUY
       THEN best_ask_price(b) # End /\ event.price >= best_ask_price(b)
       ELSE best_bid_price(b) # End /\ event.price <= best_bid_price(b)

BestOpposite(b, side) == IF side = BUY THEN best_ask_price(b) ELSE best_bid_price(b)

LevelQuantity(levels, price) ==
    IF price \in DOMAIN levels THEN levels[price].total_quantity_ ELSE 0

\* C5: the trades of a marketable Limit event consume orders that rested on
\* the opposite side before the event: each trade's maker is such an order,
\* its price is that order's resting price, its taker is the event's
\* order_id, and the opposite best level shrinks by what was traded there.
C5_MarketableLimitHitsOpposite ==
    [][\A event \in Events :
          (Marketable(Book, event) /\ ProcessEvent(event))
             => LET opp == Opposite(event.side)
                    best == BestOpposite(Book, event.side)
                    atBest == SelectSeq(trades', LAMBDA t : t.price = best)
                IN /\ trades' # << >>
                   /\ \A i \in DOMAIN trades' :
                         /\ trades'[i].taker_id = event.order_id
                         /\ \E pl \in Places(Book) :
                               /\ pl[1] = opp
                               /\ pl[2] = trades'[i].price
                               /\ OrderAtPlace(Book, pl).id = trades'[i].maker_id
                   /\ LevelQuantity(SideLevels(Book', opp), best)
                         = LevelQuantity(SideLevels(Book, opp), best)
                              - SumQuantity(atBest)]_vars

\* ---------------------------------------------------------------------- C6
\* C6: every emitted trade's price is the price at which its maker was
\* admitted: the price field the maker order was admitted with, which is
\* also the price of the level it rested in.
C6_TradeAtMakerPrice ==
    /\ Len(makers) = Len(trades)
    /\ \A i \in DOMAIN trades :
          /\ trades[i].maker_id = makers[i].id
          /\ trades[i].price = makers[i].price
    /\ \A pl \in Places(Book) :
          /\ OrderAtPlace(Book, pl).price = pl[2]
          /\ OrderAtPlace(Book, pl).side = pl[1]

\* An aggressor has traded at two prices.
C6_Witness ==
    /\ Len(trades) = 2
    /\ trades[1].price # trades[2].price

\* ---------------------------------------------------------------------- C7
IdsOf(orders) == [i \in DOMAIN orders |-> orders[i].id]

MakerIdsOf(ts) == [i \in DOMAIN ts |-> ts[i].maker_id]

IsPrefix(s, t) == Len(s) <= Len(t) /\ s = SubSeq(t, 1, Len(s))

\* C7: price-time priority over the trades of one aggressor (a call that
\* handles one event): an earlier trade
\* is at a no-worse price (asks walked ascending, bids descending); a level is
\* gone from its map before the next price is touched; the makers traded at
\* one price are the first orders of that level's queue, in queue order (for
\* an admission that trades, the queue with the admitted order, which carries
\* the taker's id, at its tail); and queue order is admission order: a queue
\* only ever grows by one order, at its tail.
C7_PriceTimePriority ==
    [][ops' = ops + 1 =>
       /\ \A i \in DOMAIN trades' :
             LET walked == IF makers'[1].side = BUY THEN buy_levels_ ELSE sell_levels_
                 left == IF makers'[1].side = BUY THEN buy_levels_' ELSE sell_levels_'
                 price == trades'[i].price
                 queue == IdsOf(LevelAt(walked, price).orders_)
                 here == SelectSeq(trades', LAMBDA t : t.price = price)
             IN /\ makers'[i].side = makers'[1].side
                /\ \A j \in DOMAIN trades' :
                      i < j => IF makers'[1].side = SELL
                               THEN price <= trades'[j].price
                               ELSE price >= trades'[j].price
                /\ (i < Len(trades') /\ trades'[i + 1].price # price)
                      => price \notin DOMAIN left
                /\ IF ret' = "true"
                   THEN IsPrefix(MakerIdsOf(here), Append(queue, trades'[i].taker_id))
                   ELSE IsPrefix(MakerIdsOf(here), queue)
       /\ buy_levels_' # buy_levels_
             => \A price \in DOMAIN buy_levels_' :
                   LET before == LevelAt(buy_levels_, price).orders_
                       after == buy_levels_'[price].orders_
                   IN Len(after) > Len(before)
                         => Len(after) = Len(before) + 1 /\ IsPrefix(before, after)
       /\ sell_levels_' # sell_levels_
             => \A price \in DOMAIN sell_levels_' :
                   LET before == LevelAt(sell_levels_, price).orders_
                       after == sell_levels_'[price].orders_
                   IN Len(after) > Len(before)
                         => Len(after) = Len(before) + 1 /\ IsPrefix(before, after)]_vars

\* One aggressor has traded with two different makers at one price.
C7_Witness ==
    /\ Len(trades) = 2
    /\ trades[1].price = trades[2].price
    /\ trades[1].maker_id # trades[2].maker_id

\* ---------------------------------------------------------------------- C8
\* C8: size() equals the number of entries of order_lookup_ and equals the
\* number of orders queued over all levels.
C8_SizeIsIndexSizeIsQueued ==
    /\ size(Book) = Cardinality(DOMAIN order_lookup_)
    /\ size(Book) = QueuedOrders(Book)

\* ---------------------------------------------------------------------- C9
\* C9: no level present in buy_levels_ or sell_levels_ has an empty queue.
C9_NoEmptyLevel ==
    /\ \A p \in DOMAIN buy_levels_ : buy_levels_[p].orders_ # << >>
    /\ \A p \in DOMAIN sell_levels_ : sell_levels_[p].orders_ # << >>

\* A fill has emptied a level (the level of the first trade is gone from the
\* side that was walked) while another level is still there.
C9_Witness ==
    /\ trades # << >>
    /\ trades[1].price \notin DOMAIN SideLevels(Book, makers[1].side)
    /\ DOMAIN SideLevels(Book, makers[1].side) # {}

\* --------------------------------------------------------------------- C10
\* C10: every level's total_quantity_ is the sum of the residual quantities
\* of the orders in its queue.
C10_LevelQuantityIsSum ==
    /\ \A p \in DOMAIN buy_levels_ :
          buy_levels_[p].total_quantity_ = SumQuantity(buy_levels_[p].orders_)
    /\ \A p \in DOMAIN sell_levels_ :
          sell_levels_[p].total_quantity_ = SumQuantity(sell_levels_[p].orders_)

\* A partial fill has left its maker at the head of a level that holds a
\* second order.
C10_Witness ==
    /\ trades # << >>
    /\ LET last == makers[Len(makers)]
           levels == SideLevels(Book, last.side)
       IN /\ last.price \in DOMAIN levels
          /\ Len(levels[last.price].orders_) = 2
          /\ Head(levels[last.price].orders_).id = last.id
          /\ Head(levels[last.price].orders_).quantity = 1
          /\ levels[last.price].total_quantity_ = 3

\* --------------------------------------------------------------------- C11
\* C11: after any sequence of events, trade_count_ is the number of trades
\* emitted since construction or the last clear, and last_trade_price_ is the
\* price of the most recently emitted trade, 0 when none has been emitted.
C11_CountAndLastPrice ==
    /\ trade_count_ = emitted_count
    /\ last_trade_price_ = last_emitted_price

\* Two events have traded one after the other; the second returned one
\* trade, at price 2, and orders still rest.
C11_Witness ==
    /\ emitted_count = 2
    /\ Len(trades) = 1
    /\ trades[1].price = 2
    /\ order_count_ > 0

\* --------------------------------------------------------------------- C12
\* C12: a limit order with price <= 0 or quantity <= 0 is rejected:
\* add_limit_order returns false, a Limit event carrying it returns zero
\* trades, and the book (levels, index, size, counters) is what it was.
C12_InvalidLimitRejected ==
    \A id \in OrderIds, side \in Side, price \in -1..2, quantity \in -1..2 :
       (price <= 0 \/ quantity <= 0)
          => /\ add_limit_order(Book, Order(id, side, price, quantity))
                   = [ret |-> FALSE, book |-> Book]
             /\ LET out == process_event(Book, Event(LIMIT, id, side, price, quantity))
                IN out.trades = << >> /\ out.book = Book

\* A limit order has just been rejected for its price or quantity: every id
\* that can be cancelled rests, so the false is not a failed cancel, and a
\* trade has been counted.
C12_Witness ==
    /\ ret = "false"
    /\ DOMAIN order_lookup_ = OrderIds
    /\ trade_count_ > 0

\* --------------------------------------------------------------------- C13
\* C13: for the id of a resting order, cancel_order(id) called twice in a row
\* returns true and then false, and the book after the second call is the
\* book after the first.
C13_CancelTwice ==
    \A id \in RestingIds(Book) :
       LET first == cancel_order(Book, id)
           second == cancel_order(first.book, id)
       IN /\ first.ret
          /\ ~second.ret
          /\ second.book = first.book

\* --------------------------------------------------------------------- C14
\* cancel_order(order_id) returns false and the Cancel event for it returns
\* no trades, both leaving the book as it is.
CancelIsNoOp(b, order_id) ==
    /\ cancel_order(b, order_id) = [ret |-> FALSE, book |-> b]
    /\ LET out == process_event(b, Event(CANCEL, order_id, BUY, 0, 0))
       IN out.trades = << >> /\ out.book = b

\* Ids of makers the last operation certainly filled completely: a partial
\* fill ends the walk, so every maker but the last was, and the last one was
\* when its level has gone from the side that was walked.
FullyFilledIds ==
    {makers[i].id :
        i \in {j \in DOMAIN makers :
                  \/ j < Len(makers)
                  \/ makers[j].price \notin DOMAIN SideLevels(Book, makers[j].side)}}

\* C14: cancel_order on an id that was never admitted, or whose order has
\* been fully filled or cancelled, returns false and changes nothing, and the
\* Cancel event for it is a no-op returning zero trades.  The ids concerned:
\* those under which no order rests (never admitted, or filled or cancelled
\* since), and those the operation just returned has filled completely.
C14_CancelAbsent ==
    /\ \A order_id \in (OrderIds \cup TakerIds) \ RestingIds(Book) :
          CancelIsNoOp(Book, order_id)
    /\ \A order_id \in FullyFilledIds : CancelIsNoOp(Book, order_id)

\* An order has just been filled completely, no order rests under its id
\* any more, and another order still rests.
C14_Witness ==
    /\ FullyFilledIds # {}
    /\ FullyFilledIds \cap RestingIds(Book) = {}
    /\ order_count_ > 0
    /\ trade_count_ > 0

\* --------------------------------------------------------------------- C15
\* The total residual quantity of the orders resting on a side.
RestingQuantity(b, side) ==
    LET levels == SideLevels(b, side)
    IN SumOver([p \in DOMAIN levels |-> SumQuantity(levels[p].orders_)], DOMAIN levels)

Min(a, b) == IF a <= b THEN a ELSE b

\* C15: for add_market_order with requested quantity q > 0, the quantities of
\* the returned trades sum to min(q, total resting quantity of the opposite
\* side before the call), never more than q, and the opposite side's total
\* resting quantity decreases by exactly that sum.
C15_MarketFillSum ==
    \A side \in Side, q \in 1..5, taker_id \in TakerIds :
       LET opp == Opposite(side)
           m == add_market_order(Book, side, q, taker_id)
           sum == SumQuantity(m.trades)
       IN /\ sum = Min(q, RestingQuantity(Book, opp))
          /\ sum <= q
          /\ RestingQuantity(m.book, opp) = RestingQuantity(Book, opp) - sum

\* A market buy has just been filled in part of one ask, leaving 1 resting
\* there, while 2 rest on the bid side: a further market buy of 2 gets the 1,
\* a market sell of 1 gets its 1 out of the 2.
C15_Witness ==
    /\ ret = "void"
    /\ trades # << >>
    /\ makers[1].side = SELL
    /\ RestingQuantity(Book, SELL) = 1
    /\ RestingQuantity(Book, BUY) = 2

\* --------------------------------------------------------------------- C16
\* C16: a Market event whose opposite side is empty returns zero trades and
\* leaves the whole book unchanged: both sides, the id index, size,
\* total_volume, trade_count and last_trade_price.
C16_MarketOnEmptySide ==
    \A order_id \in OrderIds, side \in Side, quantity \in -1..3 :
       DOMAIN SideLevels(Book, Opposite(side)) = {}
          => LET out == process_event(Book, Event(MARKET, order_id, side, 0, quantity))
             IN out.trades = << >> /\ out.book = Book

\* An event that is neither a limit nor a cancel has just returned no trades
\* while only the bid side holds orders and the counters are not zero.
C16_Witness ==
    /\ ret = "void"
    /\ trades = << >>
    /\ DOMAIN sell_levels_ = {}
    /\ DOMAIN buy_levels_ # {}
    /\ trade_count_ > 0
    /\ total_volume_ > 0

\* --------------------------------------------------------------------- C17
\* C17: a Market event never rests: the ids resting after it are among those
\* resting before it, the aggressor's own side is unchanged, and what was
\* not filled is discarded: the index gains no key, no queue gains an order,
\* and the opposite side loses exactly what was traded.
C17_MarketNeverRests ==
    Callable => \A order_id \in OrderIds, side \in Side, quantity \in -1..3 :
       LET out == process_event(Book, Event(MARKET, order_id, side, 0, quantity))
           opp == Opposite(side)
       IN \/ out.book = Book /\ out.trades = << >>
          \/ /\ RestingIds(out.book) \subseteq RestingIds(Book)
             /\ SideLevels(out.book, side) = SideLevels(Book, side)
             /\ DOMAIN out.book.order_lookup_ \subseteq DOMAIN order_lookup_
             /\ QueuedOrders(out.book) <= QueuedOrders(Book)
             /\ RestingQuantity(out.book, opp)
                   = RestingQuantity(Book, opp) - SumQuantity(out.trades)

\* A Market event has just emptied the side it walked, so that whatever it
\* asked for beyond that was not filled, while its own side holds orders.
C17_Witness ==
    /\ ret = "void"
    /\ trades # << >>
    /\ DOMAIN SideLevels(Book, makers[1].side) = {}
    /\ DOMAIN SideLevels(Book, Opposite(makers[1].side)) # {}

\* --------------------------------------------------------------------- C18
\* What one event adds to each sum of the conservation identity.  All the
\* sums are 0 at construction, so an identity between them holds after every
\* sequence of events exactly when every event, from every book on which a
\* sequence goes on, adds the same to both of its sides.
TotalResting(b) == RestingQuantity(b, BUY) + RestingQuantity(b, SELL)

\* What a call adds to the resting residuals: 0 when it left the book as it
\* was.
RestingChange(b, after) ==
    IF after = b THEN 0 ELSE TotalResting(after) - TotalResting(b)

AdmittedBy(event, out) ==
    IF event.type = LIMIT /\ out.ret = "true" THEN event.quantity ELSE 0

MarketFilledBy(event, out) ==
    IF event.type = MARKET THEN SumQuantity(out.trades) ELSE 0

\* The quantity of the order a Cancel event takes out of its queue.
CancelledBy(b, event, out) ==
    IF event.type = CANCEL /\ out.ret = "true"
    THEN LET at == b.order_lookup_[event.order_id]
         IN remove_order(SideLevels(b, at.side)[at.price],
                         event.order_id).removed_order.quantity
    ELSE 0

\* C18 as stated: after any sequence of events, the sum of the residuals of
\* the resting orders plus the sum of all traded quantities equals the sum
\* of the quantities of the admitted limit orders plus the sum of the
\* market-order quantities actually filled.
C18_ConservationAsStated ==
    Callable =>
       \A event \in Events :
          LET out == process_event(Book, event)
          IN RestingChange(Book, out.book) + SumQuantity(out.trades)
                = AdmittedBy(event, out) + MarketFilledBy(event, out)

\* C18 amended: after any sequence of events, the sum of the residuals of
\* the resting orders plus the sum of all traded quantities plus the sum of
\* the quantities of the orders removed by cancels equals the sum of the
\* quantities of the admitted limit orders.
C18_Conservation ==
    Callable =>
       \A event \in Events :
          LET out == process_event(Book, event)
          IN RestingChange(Book, out.book) + SumQuantity(out.trades)
                + CancelledBy(Book, event, out)
                = AdmittedBy(event, out)

\* Limit orders have been admitted under both ids, and a Market event has
\* just been filled in part of a resting order, which stays at the head of
\* its queue: the next event can be a cancel that finds its order, a fill,
\* or an admission.
C18_Witness ==
    /\ Callable
    /\ ret = "void"
    /\ Len(trades) = 1
    /\ DOMAIN order_lookup_ = OrderIds
    /\ LET levels == SideLevels(Book, makers[1].side)
       IN /\ makers[1].price \in DOMAIN levels
          /\ Head(levels[makers[1].price].orders_).id = makers[1].id
          /\ Head(levels[makers[1].price].orders_).quantity = 1

\* --------------------------------------------------------------------- C19
\* C19: across processed events, clear apart, total_volume_ and trade_count_
\* never decrease from one event to the next.
C19_CountersMonotone ==
    [][Clear \/ (total_volume_' >= total_volume_ /\ trade_count_' >= trade_count_)]_vars

\* Both counters have grown over two events that traded.
C19_Witness ==
    /\ trade_count_ = 2
    /\ Len(trades) = 1
    /\ total_volume_ = 3

\* --------------------------------------------------------------------- C20
\* C20: from any reachable state clear() leaves the book of a freshly
\* constructed engine: both side maps and the id index empty, size,
\* total_volume and trade_count 0 and last_trade_price 0.  The book is all
\* the state process_event reads, so the events processed after clear find
\* what they find on a fresh engine.
C20_ClearIsFresh ==
    LET b == clear(Book)
    IN /\ DOMAIN b.buy_levels_ = {}
       /\ DOMAIN b.sell_levels_ = {}
       /\ DOMAIN b.order_lookup_ = {}
       /\ size(b) = 0
       /\ b.total_volume_ = 0
       /\ b.trade_count_ = 0
       /\ b.last_trade_price_ = 0

\* Nothing is at its initial value: both sides hold orders and trades have
\* been counted.
C20_Witness ==
    /\ DOMAIN buy_levels_ # {}
    /\ DOMAIN sell_levels_ # {}
    /\ order_count_ = 2
    /\ total_volume_ > 0
    /\ trade_count_ > 0
    /\ last_trade_price_ > 0

\* --------------------------------------------------------------------- C21
\* C21: an event whose type is none of Limit, Market, Cancel yields zero
\* trades, calls no observer and leaves the book unchanged.
C21_UnknownEventIgnored ==
    \A order_id \in OrderIds, side \in Side, price \in Prices, quantity \in LimitQtys :
       LET out == process_event(Book, Event(UNKNOWN, order_id, side, price, quantity))
       IN /\ out.trades = << >>
          /\ out.calls = << >>
          /\ out.book = Book

\* Two orders rest on opposite sides, nothing has traded, and the third
\* event returned nothing and left them there.
C21_Witness ==
    /\ ops = 3
    /\ ret = "void"
    /\ trades = << >>
    /\ trade_count_ = 0
    /\ DOMAIN order_lookup_ = OrderIds
    /\ DOMAIN buy_levels_ # {}
    /\ DOMAIN sell_levels_ # {}

\* --------------------------------------------------------------------- C22
\* C22: when a trade observer is set, each process_event call invokes it
\* exactly once for every trade in the returned vector, in the order of that
\* vector, before the call returns; in process_events all observer calls for
\* one event happen before the next event is applied to the book: the calls
\* for a first event that trades see the book that event left.
C22_TradeObserver ==
    /\ Callable =>
          \A event \in Events :
             LET out == process_event(Book, event)
                 seen == TradeObserverCalls(TRUE, out.calls)
             IN /\ Len(seen) = Len(out.trades)
                /\ \A i \in DOMAIN seen : seen[i].arg = out.trades[i]
    /\ ops <= BatchDepth =>
          \A e1 \in Events :
             LET first == process_event(Book, e1)
             IN first.trades # << >> =>
                   \A e2 \in Events :
                      LET out == process_events(Book, <<e1, e2>>)
                          seen == TradeObserverCalls(TRUE, out.calls)
                      IN /\ Len(seen) = Len(out.trades)
                         /\ \A i \in DOMAIN seen : seen[i].arg = out.trades[i]
                         /\ \A i \in DOMAIN first.trades :
                               seen[i].book = first.book

\* The book holds an order on which both events of a vector can
\* trade: the observer is called for the first event's trades on the book
\* that event left, which the second event then changes.
C22_Witness ==
    /\ ops = BatchDepth
    /\ \E e1 \in Events, e2 \in Events :
          LET first == process_event(Book, e1)
              out == process_events(Book, <<e1, e2>>)
          IN /\ first.trades # << >>
             /\ Len(out.trades) > Len(first.trades)
             /\ out.book # first.book

\* --------------------------------------------------------------------- C23
\* C23: when an order observer is set, it is invoked exactly once for every
\* Limit event whose order was admitted (add_limit_order returned true), and
\* is never invoked for a rejected Limit event, a Market event or a Cancel
\* event.
C23_OrderObserver ==
    Callable =>
       \A event \in Events :
          LET out == process_event(Book, event)
              seen == OrderObserverCalls(TRUE, out.calls)
              order == Order(event.order_id, event.side, event.price, event.quantity)
          IN IF event.type = LIMIT /\ add_limit_order(Book, order).ret
             THEN Len(seen) = 1 /\ seen[1].arg = order
             ELSE seen = << >>

\* A Limit event has been admitted and has traded: the calls of its
\* notifications hold one for the order and one for the trade.
C23_Witness ==
    /\ ret = "true"
    /\ Len(trades) = 1
    /\ order_count_ > 0

\* --------------------------------------------------------------------- C24
\* C24: process_events(e1..en) processes the events in the supplied order and
\* is equivalent to calling process_event on each in turn: it returns the
\* concatenation, in order, of the per-event trade lists and leaves the book
\* in the same final state.
C24_BatchIsSequence ==
    ops <= BatchDepth =>
       /\ LET out == process_events(Book, << >>)
          IN out.trades = << >> /\ out.book = Book
       /\ \A e1 \in Events :
             LET first == process_event(Book, e1)
                 out == process_events(Book, <<e1>>)
             IN out.trades = first.trades /\ out.book = first.book
       /\ \A e1 \in Events, e2 \in Events :
             LET first == process_event(Book, e1)
                 second == process_event(first.book, e2)
                 out == process_events(Book, <<e1, e2>>)
             IN /\ out.trades = first.trades \o second.trades
                /\ out.book = second.book

\* The book holds an order on which the order of a vector of two
\* events shows: both events trade, and the other order gives other trades
\* and another book.
C24_Witness ==
    /\ ops = BatchDepth
    /\ \E e1 \in Events, e2 \in Events :
          LET first == process_event(Book, e1)
              out == process_events(Book, <<e1, e2>>)
              swapped == process_events(Book, <<e2, e1>>)
          IN /\ first.trades # << >>
             /\ Len(out.trades) > Len(first.trades)
             /\ swapped.trades # out.trades
             /\ swapped.book # out.book

\* --------------------------------------------------------------------- C25
\* C25: calling OrderBook::add_limit_order directly with an order whose price
\* crosses the opposite best price (a Sell priced at or below the best bid,
\* a Buy priced at or above the best ask) executes it immediately: after the
\* call returns true, trade_count and total_volume are greater than before
\* the call.
C25_DirectAddExecutes ==
    \A order \in Orders :
       LET a == add_limit_order(Book, order)
       IN (/\ Marketable(Book, Event(LIMIT, order.id, order.side, order.price,
                                     order.quantity))
           /\ a.ret)
             => /\ a.book.trade_count_ > trade_count_
                /\ a.book.total_volume_ > total_volume_

\* --------------------------------------------------------------------- C26
\* C26: OrderBook::add_limit_order never matches: whether it accepts or
\* rejects the order, it emits no trade and leaves total_volume, trade_count,
\* last_trade_price and the residual and queue position of every previously
\* resting order unchanged; on acceptance the only changes are the appended
\* order, its id-index entry and size + 1.
C26_AddNeverMatches ==
    \A order \in Orders :
       LET a == add_limit_order(Book, order)
           before == LevelAt(SideLevels(Book, order.side), order.price)
       IN /\ a.book.total_volume_ = total_volume_
          /\ a.book.trade_count_ = trade_count_
          /\ a.book.last_trade_price_ = last_trade_price_
          /\ \A pl \in Places(Book) :
                pl \in Places(a.book) /\ OrderAtPlace(a.book, pl) = OrderAtPlace(Book, pl)
          /\ IF a.ret
             THEN /\ Places(a.book)
                        = Places(Book)
                             \cup {<<order.side, order.price, Len(before.orders_) + 1>>}
                  /\ OrderAtPlace(a.book, <<order.side, order.price,
                                            Len(before.orders_) + 1>>) = order
                  /\ SideLevels(a.book, order.side)[order.price].total_quantity_
                        = before.total_quantity_ + order.quantity
                  /\ a.book.order_lookup_
                        = MapPut(order_lookup_, order.id,
                                 [price |-> order.price, side |-> order.side])
                  /\ size(a.book) = order_count_ + 1
             ELSE a.book = Book

\* add_limit_order has accepted an order that crosses the best price of the
\* other side, next to trades made before it: the book is crossed and its
\* counters are those of the earlier trade.
C26_Witness ==
    /\ ret = "true"
    /\ trades = << >>
    /\ trade_count_ = 1
    /\ DOMAIN buy_levels_ # {}
    /\ DOMAIN sell_levels_ # {}
    /\ best_bid_price(Book) >= best_ask_price(Book)

\* --------------------------------------------------------------------- C28
\* The levels of the book, and the level with no orders.
LevelsOf(b) ==
    {b.buy_levels_[p] : p \in DOMAIN b.buy_levels_}
    \cup {b.sell_levels_[p] : p \in DOMAIN b.sell_levels_}
    \cup {EmptyLevel}

\* C28: consume_order(q) on a price level with q > 0: if the head order's
\* residual is <= q, the head is popped and returned with its full residual
\* and the call reports fully consumed; otherwise the head stays at the front
\* with its residual reduced by q, a copy with quantity q is returned and the
\* call reports not fully consumed; on an empty level the call returns false
\* and changes nothing.
C28_ConsumeOrder ==
    \A level \in LevelsOf(Book), q \in 1..3 :
       LET c == consume_order(level, q)
       IN IF Len(level.orders_) = 0
          THEN ~c.ret /\ c.level = level
          ELSE LET head == level.orders_[1]
               IN IF head.quantity <= q
                  THEN /\ c.ret
                       /\ c.consumed_order = head
                       /\ c.level.orders_ = SubSeq(level.orders_, 2, Len(level.orders_))
                  ELSE /\ ~c.ret
                       /\ c.consumed_order.id = head.id
                       /\ c.consumed_order.quantity = q
                       /\ Len(c.level.orders_) = Len(level.orders_)
                       /\ c.level.orders_[1].id = head.id
                       /\ c.level.orders_[1].quantity = head.quantity - q
                       /\ \A i \in 2..Len(level.orders_) :
                             c.level.orders_[i] = level.orders_[i]

\* A market order has been filled by part of the head of a level of two
\* orders: the snapshot carries the filled quantity, the head stays first
\* with what is left, and the order behind it is still behind it.
C28_Witness ==
    /\ ret = "void"
    /\ Len(trades) = 1
    /\ makers[1].quantity = 1
    /\ LET levels == SideLevels(Book, makers[1].side)
       IN /\ makers[1].price \in DOMAIN levels
          /\ Len(levels[makers[1].price].orders_) = 2
          /\ levels[makers[1].price].orders_[1].id = makers[1].id
          /\ levels[makers[1].price].orders_[1].quantity = 1
          /\ levels[makers[1].price].orders_[2].id # makers[1].id

\* --------------------------------------------------------------------- C29
\* C29: a valid Limit event that is not marketable (Buy below the best ask or
\* no asks; Sell above the best bid or no bids) returns zero trades and adds
\* exactly one resting order with the event's full quantity at the tail of
\* the queue of its side and price; order_count increases by exactly 1 and
\* the counters are unchanged.
C29_PassiveLimitRests ==
    Callable => \A event \in Events :
       (/\ event.type = LIMIT
        /\ is_valid_price(event.price)
        /\ is_valid_quantity(event.quantity)
        /\ ~Marketable(Book, event))
          => LET out == process_event(Book, event)
                 before == LevelAt(SideLevels(Book, event.side), event.price)
                 tail == <<event.side, event.price, Len(before.orders_) + 1>>
             IN /\ out.trades = << >>
                /\ Places(out.book) = Places(Book) \cup {tail}
                /\ \A pl \in Places(Book) :
                      OrderAtPlace(out.book, pl) = OrderAtPlace(Book, pl)
                /\ OrderAtPlace(out.book, tail)
                      = Order(event.order_id, event.side, event.price, event.quantity)
                /\ out.book.order_count_ = order_count_ + 1
                /\ out.book.total_volume_ = total_volume_
                /\ out.book.trade_count_ = trade_count_
                /\ out.book.last_trade_price_ = last_trade_price_

\* After a trade, a Limit event has been admitted behind the order that
\* rests at its price: the level holds both, the earlier one first.
C29_Witness ==
    /\ ret = "true"
    /\ trades = << >>
    /\ trade_count_ = 1
    /\ ops = 3
    /\ \E side \in Side, price \in Prices :
          /\ price \in DOMAIN SideLevels(Book, side)
          /\ Len(SideLevels(Book, side)[price].orders_) = 2
          /\ SideLevels(Book, side)[price].orders_[1].id
                # SideLevels(Book, side)[price].orders_[2].id

\* --------------------------------------------------------------------- C30
\* The sequence without its i-th element.
Without(s, i) == [j \in 1..(Len(s) - 1) |-> IF j < i THEN s[j] ELSE s[j + 1]]

\* C30: a successful cancel_order(id) removes exactly that order and nothing
\* else: its level's total quantity decreases by the order's current
\* residual, the other orders at the level keep their residuals and relative
\* FIFO order, all other levels are unchanged, size decreases by 1, no trade
\* is emitted and total_volume, trade_count and last_trade_price are
\* unchanged.
C30_CancelRemovesOne ==
    \A order_id \in OrderIds :
       LET c == cancel_order(Book, order_id)
       IN c.ret =>
             LET at == order_lookup_[order_id]
                 level == LevelAt(SideLevels(Book, at.side), at.price)
                 left == LevelAt(SideLevels(c.book, at.side), at.price)
             IN /\ \E i \in DOMAIN level.orders_ :
                      /\ level.orders_[i].id = order_id
                      /\ left.orders_ = Without(level.orders_, i)
                      /\ left.total_quantity_
                            = level.total_quantity_ - level.orders_[i].quantity
                /\ \A side \in Side, price \in Prices :
                      <<side, price>> # <<at.side, at.price>>
                         => /\ (price \in DOMAIN SideLevels(c.book, side))
                                  = (price \in DOMAIN SideLevels(Book, side))
                            /\ LevelAt(SideLevels(c.book, side), price)
                                  = LevelAt(SideLevels(Book, side), price)
                /\ size(c.book) = order_count_ - 1
                /\ c.book.total_volume_ = total_volume_
                /\ c.book.trade_count_ = trade_count_
                /\ c.book.last_trade_price_ = last_trade_price_

\* Two admissions and a cancel that returned true: the order with id 1 is
\* gone from the book and its index, the order with id 2 rests.
C30_Witness ==
    /\ ops = 3
    /\ ret = "true"
    /\ trade_count_ = 0
    /\ order_count_ = 1
    /\ DOMAIN order_lookup_ = {2}
    /\ RestingIds(Book) = {2}

\* --------------------------------------------------------------------- C27
\* C27: running Simulator::run twice on the same Simulator object with the
\* same seed, step count and agent configurations, with reset() called
\* between the runs, yields the same total_events_processed, total_trades
\* and simulation_duration in both results.
C27_SameSeedSameResult ==
    \A i \in 1..(Len(history) - 2) :
       (/\ history[i].call = "run"
        /\ history[i + 1].call = "reset"
        /\ history[i + 2].call = "run"
        /\ history[i + 2].n_steps = history[i].n_steps
        /\ history[i + 2].maker_config = history[i].maker_config
        /\ history[i + 2].taker_config = history[i].taker_config
        /\ history[i + 2].noise_config = history[i].noise_config)
          => /\ history[i + 2].result.total_events_processed
                   = history[i].result.total_events_processed
             /\ history[i + 2].result.total_trades = history[i].result.total_trades
             /\ history[i + 2].result.simulation_duration
                   = history[i].result.simulation_duration

\* --------------------------------------------------------------------- C31
\* The events the first n calls of a step's log returned, concatenated in
\* the order of the calls.
RECURSIVE StepEvents(_, _)
StepEvents(c, n) == IF n = 0 THEN << >> ELSE StepEvents(c, n - 1) \o c[n].events

\* The last call was a run: the log, the agents and the configuration are
\* those of that run.
LastIsRun ==
    /\ history # << >>
    /\ history[Len(history)].call \in {"run", "run_with_agents"}

\* C31: in every simulation step the driver calls step once on each
\* registered agent in registration order, with the time of the tick, submits
\* the concatenated events to the engine in that order, and only after the
\* engine has processed all of them delivers every trade it returned exactly
\* once to every agent's on_trade, trade by trade in emission order.
C31_StepOrder ==
    LastIsRun =>
    \A k \in DOMAIN sim.calls_ :
       LET c == sim.calls_[k]
           agents == sim.agent_manager_.agents_
           n == Len(agents)
       IN /\ Len(c) > n
          /\ \A i \in 1..n :
                /\ c[i].call = "step"
                /\ c[i].agent = i
                /\ c[i].id = agents[i].id_
                /\ c[i].timestamp
                      = sim.config_.start_time + (k - 1) * sim.config_.time_step
          /\ c[n + 1].call = "process_events"
          /\ c[n + 1].events = StepEvents(c, n)
          /\ Len(c) = n + 1 + Len(c[n + 1].trades) * n
          /\ \A j \in DOMAIN c[n + 1].trades, i \in 1..n :
                LET e == c[n + 1 + (j - 1) * n + i]
                IN /\ e.call = "on_trade"
                   /\ e.agent = i
                   /\ e.trade = c[n + 1].trades[j]

\* A run has made a step in which two agents returned events and the engine
\* returned two trades.
C31_Witness ==
    LastIsRun /\
    \E k \in DOMAIN sim.calls_ :
       LET c == sim.calls_[k]
           n == Len(sim.agent_manager_.agents_)
       IN /\ Len(c) > n
          /\ Len(c[n + 1].trades) >= 2
          /\ c[n + 1].trades[1] # c[n + 1].trades[2]
          /\ Cardinality({i \in 1..n : c[i].events # << >>}) >= 2

\* --------------------------------------------------------------------- C33
\* C33: the first step() of a freshly constructed or reset MarketMaker
\* returns a non-empty event list containing its bid and ask quotes, also
\* when the step's timestamp is smaller than refresh_interval (1000 against
\* 50000).  The makers concerned are those a Simulator holds before their
\* first step: after a run of no steps, and after reset.
C33_FirstStepQuotes ==
    \A i \in DOMAIN sim.agent_manager_.agents_ :
       LET a == sim.agent_manager_.agents_[i]
       IN (a.kind = "MarketMaker" /\ a = MarketMaker_reset(a)) =>
             \A timestamp \in {1000, 50000} :
                LET events == MarketMaker_step(a, sim.rng_, timestamp).events
                IN /\ events # << >>
                   /\ \E j \in DOMAIN events :
                         events[j].type = LIMIT /\ events[j].side = BUY
                   /\ \E j \in DOMAIN events :
                         events[j].type = LIMIT /\ events[j].side = SELL

\* --------------------------------------------------------------------- C34
\* The trades the engine returned in the steps of a log, in emission order.
RECURSIVE EmittedTrades(_)
EmittedTrades(calls) ==
    IF calls = << >> THEN << >>
    ELSE LET c == Head(calls)
             n == CHOOSE i \in DOMAIN c : c[i].call = "process_events"
         IN c[n].trades \o EmittedTrades(Tail(calls))

\* C34: the trades list of the RunResult returned by Simulator::run (data
\* collection is enabled) contains every trade the matching engine produced
\* during the run, in emission order, so its length equals the result's
\* total_trades.
C34_ResultHoldsTrades ==
    (/\ history # << >>
     /\ history[Len(history)].call = "run"
     /\ sim.data_collection_enabled_) =>
       LET result == history[Len(history)].result
       IN /\ result.trades = EmittedTrades(sim.calls_)
          /\ Len(result.trades) = result.total_trades

\* --------------------------------------------------------------------- C38
\* No Limit event of the vector reuses the id of an order that rests in the
\* book when the engine comes to that event.
RECURSIVE NoRestingIdReused(_, _)
NoRestingIdReused(b, events) ==
    \/ events = << >>
    \/ /\ Head(events).type = LIMIT => Head(events).order_id \notin RestingIds(b)
       /\ NoRestingIdReused(process_event(b, Head(events)).book, Tail(events))

\* C38: during a simulation run with the three canonical agents (MarketMaker
\* id 1, Taker id 2, NoiseTrader id 3), no Limit event is submitted to the
\* engine with an order_id equal to the id of an order that is still resting
\* in the book.
C38_NoRestingIdReused ==
    [i \in DOMAIN sim.agent_manager_.agents_ |->
        <<sim.agent_manager_.agents_[i].kind, sim.agent_manager_.agents_[i].id_>>]
       = <<<<"MarketMaker", 1>>, <<"Taker", 2>>, <<"NoiseTrader", 3>>>> =>
       \A k \in DOMAIN sim.calls_ :
          LET submitted == sim.calls_[k][4]
          IN NoRestingIdReused(submitted.book, submitted.events)

\* --------------------------------------------------------------------- C39
\* size() is the number of orders queued, and the call that took the book
\* from b to after has decremented the counter once for each order that left
\* a queue, without wrapping around.
SizeFollowsQueues(b, after) ==
    /\ size(after) = QueuedOrders(after)
    /\ size(after) <= size(b) + 1
    /\ size(after) < size(b) =>
          size(b) - size(after) = QueuedOrders(b) - QueuedOrders(after)

\* C39: after any sequence of public OrderBook operations, including
\* admissions that reuse the id of a resting order, size() equals the number
\* of orders physically held in the bid and ask level queues and the unsigned
\* counter never underflows: every decrement of size corresponds to exactly
\* one order removed from a queue.
C39_SizeIsPhysicalCount ==
    /\ size(Book) = QueuedOrders(Book)
    /\ Callable =>
          /\ \A order \in Orders :
                SizeFollowsQueues(Book, add_limit_order(Book, order).book)
          /\ \A side \in Side, quantity \in MarketQtys, taker_id \in TakerIds :
                SizeFollowsQueues(Book,
                                  add_market_order(Book, side, quantity, taker_id).book)
          /\ \A order_id \in OrderIds :
                SizeFollowsQueues(Book, cancel_order(Book, order_id).book)

\* Two orders were admitted under one id and an operation has taken one of
\* them out of its queue: size() has gone from 2 to 1, the other order still
\* rests, and the index has lost the id.
C39_Witness ==
    /\ order_count_ = 1
    /\ QueuedOrders(Book) = 1
    /\ RestingIds(Book) # {}
    /\ DOMAIN order_lookup_ = {}

\* --------------------------------------------------------------------- C37
\* Every order resting in b has a positive price and a positive residual,
\* and every trade of ts a positive quantity.
AllPositive(b, ts) ==
    /\ \A pl \in Places(b) :
          OrderAtPlace(b, pl).price > 0 /\ OrderAtPlace(b, pl).quantity > 0
    /\ \A i \in DOMAIN ts : ts[i].quantity > 0

\* C37: in every reachable state each resting order has price > 0 and
\* residual quantity > 0, and every emitted trade has quantity > 0, for any
\* sequence of events, including Market events with zero or negative
\* quantity: such an event, on any book a sequence has built, emits no trade
\* and leaves every residual as it was.
C37_Positive ==
    /\ AllPositive(Book, trades)
    /\ Callable =>
          \A order_id \in OrderIds, side \in Side, quantity \in {q \in MarketQtys : q <= 0} :
             LET out == process_event(Book, Event(MARKET, order_id, side, 0, quantity))
             IN out.trades = << >> /\ out.book = Book

\* A Market event has just been filled in part of a resting order, whose
\* residual is the smallest positive quantity, while orders rest on both
\* sides for a Market event of zero or negative quantity to meet.
C37_Witness ==
    /\ Callable
    /\ ret = "void"
    /\ Len(trades) = 1
    /\ DOMAIN buy_levels_ # {}
    /\ DOMAIN sell_levels_ # {}
    /\ \E pl \in Places(Book) :
          /\ OrderAtPlace(Book, pl).id = trades[1].maker_id
          /\ OrderAtPlace(Book, pl).quantity = 1

\* --------------------------------------------------------------------- C35
\* The market order that took b to m.book ended in a partial fill: its last
\* maker is still queued.
EndsInPartialFill(b, m) ==
    /\ m.trades # << >>
    /\ QueuedOrders(b) - QueuedOrders(m.book) = Len(m.trades) - 1

\* C35: a maker that is only partially filled keeps its time priority.  For
\* every market order that ends in a partial fill, on every book: the maker
\* stays at the head of its price level with the reduced residual and the
\* orders behind it stay behind it; and after any order is admitted later at
\* that price, the next aggressor trades first with that maker, at that
\* price, and reaches the later order only when the maker's residual is
\* used up.
C35_PartialFillKeepsPriority ==
    Callable =>
       \A side \in Side, quantity \in {q \in MarketQtys : q > 0}, taker_id \in TakerIds :
          LET m == add_market_order(Book, side, quantity, taker_id)
              last == m.trades[Len(m.trades)]
              maker == m.makers[Len(m.makers)]
              before == SideLevels(Book, maker.side)[last.price].orders_
              after == SideLevels(m.book, maker.side)[last.price].orders_
              filled == Len(before) - Len(after)
              residual == before[filled + 1].quantity - last.quantity
          IN EndsInPartialFill(Book, m) =>
                /\ Head(after) = [before[filled + 1] EXCEPT !.quantity = residual]
                /\ Head(after).id = last.maker_id
                /\ residual > 0
                /\ Tail(after) = SubSeq(before, filled + 2, Len(before))
                /\ \A id \in OrderIds, later \in {q \in LimitQtys : q > 0},
                      next \in {q \in MarketQtys : q > 0} :
                      LET a == add_limit_order(m.book,
                                               Order(id, maker.side, last.price, later))
                          n == add_market_order(a.book, side, next, taker_id)
                      IN /\ a.ret
                         /\ n.trades # << >>
                         /\ n.trades[1].maker_id = last.maker_id
                         /\ n.trades[1].price = last.price
                         /\ n.trades[1].quantity = Min(residual, next)
                         /\ n.makers[1].id = Head(after).id
                         /\ Len(n.trades) > 1 => n.trades[1].quantity = residual

\* A market order has just been filled in part of the head of a level, which
\* keeps a residual of 1 under an id that no order behind it shares; the
\* other id is free for an order admitted later at that price.
C35_Witness ==
    /\ Callable
    /\ ret = "void"
    /\ Len(trades) = 1
    /\ Cardinality(DOMAIN order_lookup_) = 1
    /\ order_count_ = 1
    /\ LET levels == SideLevels(Book, makers[1].side)
       IN /\ trades[1].price \in DOMAIN levels
          /\ Head(levels[trades[1].price].orders_).id = trades[1].maker_id
          /\ Head(levels[trades[1].price].orders_).quantity = 1

\* --------------------------------------------------------------------- C36
\* Order ids are unique in b: no two queued orders share an id.
UniqueIds(b) == Cardinality(RestingIds(b)) = QueuedOrders(b)

\* The residual of the order resting under the id, 0 when none does.
Residual(b, id) ==
    IF id \in RestingIds(b)
    THEN OrderAtPlace(b, CHOOSE pl \in Places(b) : OrderAtPlace(b, pl).id = id).quantity
    ELSE 0

\* Sum of the quantities of the trades naming the id as maker.
RECURSIVE MakerFilled(_, _)
MakerFilled(ts, id) ==
    IF ts = << >> THEN 0
    ELSE (IF Head(ts).maker_id = id THEN Head(ts).quantity ELSE 0)
         + MakerFilled(Tail(ts), id)

\* C36: per-order conservation: when order ids are unique, for every admitted
\* limit order the admitted quantity equals its current residual (0 once
\* gone) plus the sum of the quantities of all trades naming it as maker plus
\* the residual it had when cancelled (0 if never cancelled).  All the terms
\* of a new order but the admitted quantity are 0, so the identity holds after
\* every sequence of calls exactly when every call keeps it: an admission
\* sets the residual to the admitted quantity, a market order takes from each
\* residual what its trades name, a cancel takes the whole residual of its
\* order, and no call touches another order.
C36_PerOrderConservation ==
    (Callable /\ UniqueIds(Book)) =>
       /\ \A order \in Orders :
             order.id \notin RestingIds(Book) =>
                LET a == add_limit_order(Book, order)
                IN \A id \in OrderIds :
                      Residual(a.book, id)
                         = IF a.ret /\ id = order.id THEN order.quantity
                           ELSE Residual(Book, id)
       /\ \A side \in Side, quantity \in MarketQtys, taker_id \in TakerIds :
             LET m == add_market_order(Book, side, quantity, taker_id)
             IN /\ UniqueIds(m.book)
                /\ \A id \in OrderIds :
                      Residual(Book, id)
                         = Residual(m.book, id) + MakerFilled(m.trades, id)
                /\ \A i \in DOMAIN m.trades : m.trades[i].maker_id \in RestingIds(Book)
       /\ \A order_id \in OrderIds :
             LET c == cancel_order(Book, order_id)
             IN \A id \in OrderIds :
                   Residual(Book, id)
                      = Residual(c.book, id)
                        + (IF id = order_id
                           THEN CancelledBy(Book, Event(CANCEL, order_id, BUY, 0, 0),
                                            [ret |-> RetOf(c.ret)])
                           ELSE 0)

\* Orders rest under both ids, and a market order has just been filled by
\* part of one of them, which keeps the rest of its quantity.
C36_Witness ==
    /\ Callable
    /\ UniqueIds(Book)
    /\ RestingIds(Book) = OrderIds
    /\ ret = "void"
    /\ Len(trades) = 1
    /\ Residual(Book, trades[1].maker_id) = 1
    /\ trades[1].quantity = 1

\* ---------------------------------------------------------------------------
\* C32: once an order has been fully filled or cancelled it is gone for good.
\* For every id in gone (an order of that id was fully filled or cancelled and
\* no order has been admitted under the id since): get_order(id) is absent,
\* cancel_order(id) returns false, and no market order the book can receive
\* next produces a trade whose maker_id is that id.
C32_GoneForGood ==
    \A id \in gone :
        /\ get_order(Book, id) = << >>
        /\ ~cancel_order(Book, id).ret
        /\ Callable =>
             \A side \in Side, quantity \in MarketQtys, taker_id \in TakerIds :
                LET m == add_market_order(Book, side, quantity, taker_id)
                IN \A i \in DOMAIN m.trades : m.trades[i].maker_id # id

====
